---- MODULE Spec2Model ----
(***************************************************************************)
(* A model of cbor-patch (github.com/ldclabs/cbor-patch): RFC 6902 patch   *)
(* operations applied to lazily parsed CBOR documents.                     *)
(*                                                                         *)
(* Encoded CBOR bytes are modelled by the data item they encode ("items"), *)
(* a Node by the fields of the Go struct (which, raw, doc, ary), and a     *)
(* container (a pointer to a partialDoc or a partialArray) by its value    *)
(* together with the place it occupies in the tree, so that an in-place    *)
(* mutation through the pointer becomes an update at that place.           *)
(***************************************************************************)
EXTENDS Integers, Sequences, FiniteSets, TLC

(***************************************************************************)
(* Bounds of the model.                                                    *)
(***************************************************************************)
\* Total number of operations over all Patch calls of one behaviour, a call
\* of MarshalJSON or of UnmarshalCBOR between them counted as one.
MaxOps == 3
\* Longest array drawn as an input of the container-level specification.
MaxArr == 3
\* the deepest nesting of Nodes MarshalCBOR follows
MaxDepth == 4
\* the longest key, in characters, the JSON Pointer round trip is run on
MaxKeyLen == 3

(***************************************************************************)
(* v := ...; F(v): a local variable of the Go code, evaluated once.        *)
(***************************************************************************)
With(v, F(_)) == F(v)

\* The function f on 1..n as the sequence <<f[1], ..., f[n]>>.
seq(f) == f \o <<>>

\* the orders in which a range over a Go map may yield the keys S
Orders(S) ==
  {f \in [1..Cardinality(S) -> S] : \A i, j \in 1..Cardinality(S) : i # j => f[i] # f[j]}

(***************************************************************************)
(* Errors.  An error is modelled by the sentinel its message carries.      *)
(***************************************************************************)
NoErr == "nil"
ErrMissing == "missing value"
ErrInvalid == "invalid node detected"
ErrInvalidIndex == "invalid index referenced"
\* cbor: cannot unmarshal a text string into a Go int (RawKey.toInt)
ErrUnmarshalType == "cbor: cannot unmarshal into Go value of type int"
\* cbor: cannot unmarshal an integer into a Go int that cannot hold it
ErrOverflow == "cbor: cannot unmarshal integer into Go value of type int (overflow)"
ErrImpossible == "replace operation hit impossible case"
ErrTestFailed == "test operation failed"
ErrCopySize == "accumulated copy size exceeded"
ErrInvalidOperation == "invalid operation"
\* the error of cborValid on bytes that are no well-formed data item
ErrNotValid == "cbor: data is not well-formed"
\* a Go run-time panic (index out of range, failed type assertion)
Panic == "panic"

(***************************************************************************)
(* Node.which                                                              *)
(***************************************************************************)
eRaw == 0
eDoc == 1
eAry == 2
eOther == 3

(***************************************************************************)
(* Op codes                                                                *)
(***************************************************************************)
OpReserved == 0
OpAdd == 1
OpRemove == 2
OpReplace == 3
OpMove == 4
OpCopy == 5
OpTest == 6

(***************************************************************************)
(* Raw keys: the CBOR encoding of an integer or of a text string.  The     *)
(* model is of a 64-bit build, where int has 64 bits: KInt(i) is an        *)
(* integer key that int holds (the model draws small ones), KWide(s) a     *)
(* CBOR integer that int cannot hold, 2^63 and above or below -2^63, kept  *)
(* by its decimal digits s.                                                *)
(***************************************************************************)
KInt(i) == [t |-> "int", i |-> i, s |-> ""]
KTxt(s) == [t |-> "txt", i |-> 0, s |-> s]
KWide(s) == [t |-> "wide", i |-> 0, s |-> s]

minus == KTxt("-")

isMinus(k) == k = minus

\* the key is "-" or of CBOR type positive or negative integer
isIndex(k) == isMinus(k) \/ k.t \in {"int", "wide"}

\* cborUnmarshal(k, &i) fails on an integer that int cannot hold and on a
\* key that is no integer
toInt(k) ==
  IF isMinus(k) THEN [err |-> NoErr, i |-> -1]
  ELSE IF k.t = "int" THEN [err |-> NoErr, i |-> k.i]
  ELSE IF k.t = "wide" THEN [err |-> ErrOverflow, i |-> -1]
  ELSE [err |-> ErrUnmarshalType, i |-> -1]

encodeArrayIdx(i) == KInt(i)

\* RawKey.Key: the key as a JSON object key, the decimal digits of an
\* integer key and the characters of a text key
Key(k) == IF k.t = "int" THEN ToString(k.i) ELSE k.s

(***************************************************************************)
(* Items: the data item a byte string encodes.  Empty is the nil or empty  *)
(* byte string.                                                            *)
(***************************************************************************)
Empty == [ty |-> "empty"]
INull == [ty |-> "null"]
IUndef == [ty |-> "undef"]
IInt(i) == [ty |-> "int", i |-> i]
ITxt(s) == [ty |-> "txt", s |-> s]
IMap(m) == [ty |-> "map", m |-> m]
IAry(a) == [ty |-> "ary", a |-> a]

NoDoc == [k \in {} |-> Empty]

rawCBORNull == INull
rawCBORArray == IAry(<<>>)
rawCBORMap == IMap(NoDoc)

isNull(data) == data.ty \in {"empty", "null", "undef"}

(***************************************************************************)
(* Nodes                                                                   *)
(***************************************************************************)
\* the nil *Node
Nil == [nil |-> TRUE]

\* make([]*Node, k): k nil pointers
RECURSIVE makeSlice(_)
makeSlice(k) == IF k <= 0 THEN <<>> ELSE Append(makeSlice(k - 1), Nil)

\* A Node is the fields of the Go struct, and spare: the slots of the backing
\* array of n.ary that lie beyond its length (cap(n.ary) - len(n.ary) of
\* them), which append and the decoder of an array reuse.
NewNode(doc) ==
  [which |-> eRaw, raw |-> IF doc = Empty THEN rawCBORNull ELSE doc,
   doc |-> NoDoc, ary |-> <<>>, spare |-> <<>>]

\* cborUnmarshal of one element into a *Node: null and undefined give the
\* nil pointer, any other item a raw Node (Node.UnmarshalCBOR).
UnmarshalNode(item) ==
  IF item.ty \in {"null", "undef"} THEN Nil
  ELSE [which |-> eRaw, raw |-> item, doc |-> NoDoc, ary |-> <<>>, spare |-> <<>>]

\* The buffers raw bytes lie in.  A Node kept as a heap cell carries in buf
\* the buffer its raw points to: the one made for the cell at i, the bytes
\* the caller gave NewNode, the bytes of the value of an operation, the
\* package's rawCBORNull, or the slice a MarshalCBOR call returned.
OwnBuf(i) == [of |-> "cell", at |-> i]
InputBuf == [of |-> "input", at |-> 0]
ValueBuf == [of |-> "value", at |-> 0]
NullBuf == [of |-> "rawCBORNull", at |-> 0]
MarshalBuf == [of |-> "marshalled", at |-> 0]

withBuf(nd, b) ==
  [which |-> nd.which, raw |-> nd.raw, doc |-> nd.doc, ary |-> nd.ary,
   spare |-> nd.spare, buf |-> b]

\* A copy that hands back the slice it was given.
copyBytesAlias(data, fresh) == data

\* copyBytes(data): make([]byte, len(data)) and copy; fresh is the buffer made
copyBytes(data, fresh) == fresh

\* NewNode(doc) as the next cell of the heap h, doc lying in the buffer data
hNewNode(h, doc, data) ==
  withBuf(NewNode(doc),
          copyBytes(IF doc = Empty THEN NullBuf ELSE data, OwnBuf(Len(h) + 1)))

\* Node.UnmarshalCBOR on a new Node, as the next cell of the heap h: the
\* bytes are appended to a buffer made for the Node
hUnmarshalled(h, nd) == withBuf(nd, OwnBuf(Len(h) + 1))

\* The container a parsed Node holds: n.doc (a *partialDoc) or &n.ary (a
\* *partialArray, the slice with its spare slots).  A container is one or
\* the other; the fields of the other kind are empty.
conOf(n) ==
  [kind |-> n.which,
   obj |-> IF n.which = eDoc THEN n.doc ELSE NoDoc,
   ary |-> IF n.which = eAry THEN n.ary ELSE <<>>,
   spare |-> IF n.which = eAry THEN n.spare ELSE <<>>]

\* n.doc = c / n.ary = *c: the Node with the container c stored in the field
\* of its kind.  The field of the other kind keeps what it holds.
withCon(n, c) ==
  CASE c.kind = eDoc -> [n EXCEPT !.doc = c.obj]
    [] c.kind = eAry -> [n EXCEPT !.ary = c.ary, !.spare = c.spare]
    [] OTHER -> n

NoCon == [kind |-> eOther, obj |-> NoDoc, ary |-> <<>>, spare |-> <<>>]

\* The member of a container at a slot (a map key, or the position idx of
\* an array as KInt(idx)), and the container with that member replaced.
childAt(c, slot) == IF c.kind = eDoc THEN c.obj[slot] ELSE c.ary[slot.i + 1]

putChild(c, slot, node) ==
  IF c.kind = eDoc THEN [c EXCEPT !.obj[slot] = node]
  ELSE [c EXCEPT !.ary[slot.i + 1] = node]

\* Node.UnmarshalCBOR(data) on an existing Node: valid data overwrite the
\* raw bytes and the Node is raw again; doc and ary keep what an earlier
\* parse left in them.  (The field ty, set here and by intoContainer, is
\* read by error messages only and is not modelled.)
UnmarshalCBOR(node, data) ==
  IF data = Empty THEN [n |-> node, err |-> ErrNotValid]
  ELSE [n |-> [node EXCEPT !.raw = data, !.which = eRaw], err |-> NoErr]

\* cborUnmarshal stores into what it is given.  The rules of the decoder of
\* the cbor library (github.com/fxamacker/cbor/v2, Unmarshal):
\*   a map goes into the existing Go map, whose other entries stay, every
\*     value a newly made Node (the nil pointer for null and undefined);
\*   an array gets a new slice when it is empty or longer than the capacity
\*     of the existing one; otherwise the existing slice takes the length of
\*     the array and every element is decoded into the slot it has: null
\*     and undefined set the slot to nil, a nil slot gets a new Node, and a
\*     Node already there is given the bytes by Node.UnmarshalCBOR.
decodeInto(old, item) ==
  IF item.ty \in {"null", "undef"} THEN Nil
  ELSE IF old = Nil THEN UnmarshalNode(item)
  ELSE UnmarshalCBOR(old, item).n

decodeMap(doc, m) ==
  [k \in DOMAIN doc \cup DOMAIN m |->
     IF k \in DOMAIN m THEN UnmarshalNode(m[k]) ELSE doc[k]]

decodeSlice(ary, spare, a) ==
  IF Len(a) = 0 \/ Len(ary) + Len(spare) < Len(a)
  THEN [ary |-> seq([j \in 1..Len(a) |-> UnmarshalNode(a[j])]), spare |-> <<>>]
  ELSE [ary |-> seq([j \in 1..Len(a) |-> decodeInto((ary \o spare)[j], a[j])]),
        spare |-> SubSeq(ary \o spare, Len(a) + 1, Len(ary) + Len(spare))]

\* A parse that takes a document that is no container for an empty map.
intoContainerLenient(n) ==
  CASE n.which = eDoc \/ n.which = eAry -> [n |-> n, ok |-> TRUE, err |-> NoErr]
    [] OTHER ->
        IF n.raw.ty = "map"
        THEN [n |-> [n EXCEPT !.which = eDoc, !.doc = decodeMap(n.doc, n.raw.m)],
              ok |-> TRUE, err |-> NoErr]
        ELSE IF n.raw.ty = "ary"
        THEN [n |-> [n EXCEPT !.which = eAry,
                      !.ary = decodeSlice(n.ary, n.spare, n.raw.a).ary,
                      !.spare = decodeSlice(n.ary, n.spare, n.raw.a).spare],
              ok |-> TRUE, err |-> NoErr]
        ELSE [n |-> [n EXCEPT !.which = eDoc], ok |-> TRUE, err |-> NoErr]

intoContainer(n) ==
  CASE n.which = eDoc -> [n |-> n, ok |-> TRUE, err |-> NoErr]
    [] n.which = eAry -> [n |-> n, ok |-> TRUE, err |-> NoErr]
    [] n.which = eOther -> [n |-> n, ok |-> FALSE, err |-> ErrInvalid]
    [] OTHER ->
        IF n.raw.ty = "map"
        THEN [n |-> [n EXCEPT !.which = eDoc, !.doc = decodeMap(n.doc, n.raw.m)],
              ok |-> TRUE, err |-> NoErr]
        ELSE IF n.raw.ty = "ary"
        THEN [n |-> [n EXCEPT !.which = eAry,
                      !.ary = decodeSlice(n.ary, n.spare, n.raw.a).ary,
                      !.spare = decodeSlice(n.ary, n.spare, n.raw.a).spare],
              ok |-> TRUE, err |-> NoErr]
        ELSE [n |-> [n EXCEPT !.which = eOther], ok |-> FALSE, err |-> ErrInvalid]

Node_isNull(n) ==
  CASE n = Nil -> TRUE
    [] n.which = eDoc \/ n.which = eAry -> FALSE
    [] OTHER -> isNull(n.raw)

RECURSIVE MarshalCBOR(_)
MarshalCBOR(n) ==
  CASE n = Nil -> rawCBORNull
    [] n.which = eRaw \/ n.which = eOther -> n.raw
    [] n.which = eDoc -> IMap([k \in DOMAIN n.doc |-> MarshalCBOR(n.doc[k])])
    [] OTHER -> IAry(seq([j \in 1..Len(n.ary) |-> MarshalCBOR(n.ary[j])]))

\* partialDoc.MarshalJSON copies the members into a map keyed by Key(k): of
\* the keys that give one JSON key the member of one of them stays (the
\* last the range over d.obj yields), and only the members that stay are
\* marshalled.  The sets of keys whose members may stay.
keptKeys(d) ==
  {K \in SUBSET DOMAIN d :
     \A k \in DOMAIN d : Cardinality({j \in K : Key(j) = Key(k)}) = 1}

\* Node.MarshalJSON: the Nodes the call may leave.  The call parses the Node
\* in place and json.Marshal calls MarshalJSON on every member that is no
\* nil pointer, so that the tree below the Node is parsed throughout and a
\* scalar is marked eOther.  The JSON text returned is not part of the
\* model; no item of the model (maps, arrays, integers, text strings, null,
\* undefined) makes the call fail.
RECURSIVE MarshalJSON(_)
RECURSIVE marshalMembers(_, _)
MarshalJSON(node) ==
  IF node = Nil THEN {Nil}
  ELSE With(intoContainer(node).n, LAMBDA pn :
       CASE pn.which = eDoc ->
              UNION {marshalMembers(pn, CHOOSE ord \in Orders(K) : TRUE)
                       : K \in keptKeys(pn.doc)}
         [] pn.which = eAry ->
              marshalMembers(pn, [j \in 1..Len(pn.ary) |-> KInt(j - 1)])
         [] OTHER -> {pn})

\* the members at the slots marshalled one after the other
marshalMembers(pn, slots) ==
  IF slots = <<>> THEN {pn}
  ELSE UNION { marshalMembers(withCon(pn, putChild(conOf(pn), Head(slots), m)),
                              Tail(slots))
               : m \in MarshalJSON(childAt(conOf(pn), Head(slots))) }

\* The outcome of a comparison: the result, and the two Nodes as the call
\* leaves them (Equal parses in place the Nodes it compares).
Compared(eq, n, o) == [eq |-> eq, n |-> n, o |-> o]

\* An Equal on maps that does not compare the numbers of keys.
RECURSIVE Equal(_, _)
RECURSIVE equalMembers(_, _, _)
EqualNoLen(n, o) ==
  IF Node_isNull(n) THEN {Compared(Node_isNull(o), n, o)}
  ELSE IF Node_isNull(o) THEN {Compared(FALSE, n, o)}
  ELSE With(intoContainer(n).n, LAMBDA pn :
       IF pn.which = eOther
       THEN {Compared(IF o.which = eDoc \/ o.which = eAry THEN FALSE
                      ELSE pn.raw = o.raw, pn, o)}
       ELSE With(intoContainer(o).n, LAMBDA po :
            IF pn.which # po.which THEN {Compared(FALSE, pn, po)}
            ELSE IF pn.which = eDoc
            THEN UNION {equalMembers(pn, po, ord) : ord \in Orders(DOMAIN pn.doc)}
            ELSE IF Len(pn.ary) # Len(po.ary) THEN {Compared(FALSE, pn, po)}
            ELSE equalMembers(pn, po, [j \in 1..Len(pn.ary) |-> KInt(j - 1)])))

\* Node.Equal: the outcomes the call may have, one for every order in which
\* the maps compared yield their keys.  The result is the same in all of
\* them; the Nodes parsed before a difference is met are not.
Equal(n, o) ==
  IF Node_isNull(n) THEN {Compared(Node_isNull(o), n, o)}
  ELSE IF Node_isNull(o) THEN {Compared(FALSE, n, o)}
  ELSE With(intoContainer(n).n, LAMBDA pn :
       IF pn.which = eOther
       THEN {Compared(IF o.which = eDoc \/ o.which = eAry THEN FALSE
                      ELSE pn.raw = o.raw, pn, o)}
       ELSE With(intoContainer(o).n, LAMBDA po :
            IF pn.which # po.which THEN {Compared(FALSE, pn, po)}
            ELSE IF pn.which = eDoc
            THEN IF Cardinality(DOMAIN pn.doc) # Cardinality(DOMAIN po.doc)
                 THEN {Compared(FALSE, pn, po)}
                 ELSE UNION {equalMembers(pn, po, ord) : ord \in Orders(DOMAIN pn.doc)}
            ELSE IF Len(pn.ary) # Len(po.ary) THEN {Compared(FALSE, pn, po)}
            ELSE equalMembers(pn, po, [j \in 1..Len(pn.ary) |-> KInt(j - 1)])))

\* for k, v := range n.doc.obj and for idx, val := range n.ary: the members
\* at slots compared in turn, up to the first pair that differs.  pn and po
\* are the two Nodes, parsed; every member compared is left as Equal left it.
equalMembers(pn, po, slots) ==
  IF slots = <<>> THEN {Compared(TRUE, pn, po)}
  ELSE With(Head(slots), LAMBDA k :
       IF pn.which = eDoc /\ k \notin DOMAIN po.doc
       THEN {Compared(FALSE, pn, po)}
       ELSE UNION {
              With(withCon(pn, putChild(conOf(pn), k, r.n)), LAMBDA n1 :
              With(withCon(po, putChild(conOf(po), k, r.o)), LAMBDA o1 :
                IF r.eq THEN equalMembers(n1, o1, Tail(slots))
                ELSE {Compared(FALSE, n1, o1)}))
              : r \in Equal(childAt(conOf(pn), k), childAt(conOf(po), k)) })

\* The Node Patch.test builds around the working root (var self Node): the
\* container as a document.
nodeOf(c) ==
  [which |-> c.kind, raw |-> Empty, doc |-> c.obj, ary |-> c.ary, spare |-> c.spare]

(***************************************************************************)
(* Containers.  A container value is [kind, obj, ary, spare]; an operation *)
(* on it returns the error and, where it mutates, the container after it.  *)
(***************************************************************************)
\* A map store that keeps the value of a key already present.
partialDoc_setKeep(d, key, val, options) ==
  [err |-> NoErr, slot |-> key,
   con |-> [d EXCEPT !.obj = [k \in DOMAIN d.obj \cup {key} |->
                                 IF k \in DOMAIN d.obj THEN d.obj[k] ELSE val]]]

partialDoc_set(d, key, val, options) ==
  [err |-> NoErr, slot |-> key,
   con |-> [d EXCEPT !.obj = [k \in DOMAIN d.obj \cup {key} |->
                                 IF k = key THEN val ELSE d.obj[k]]]]

partialDoc_add(d, key, val, options) == partialDoc_set(d, key, val, options)

\* slot: the place of the node in the container; held: whether the node
\* returned is the one the container holds (not a node made for a nil entry)
partialDoc_get(d, key, options) ==
  IF key \notin DOMAIN d.obj
  THEN [err |-> ErrMissing, node |-> Nil, slot |-> key, held |-> FALSE]
  ELSE IF d.obj[key] = Nil
  THEN [err |-> NoErr, node |-> NewNode(Empty), slot |-> key, held |-> FALSE]
  ELSE [err |-> NoErr, node |-> d.obj[key], slot |-> key, held |-> TRUE]

partialDoc_remove(d, key, options) ==
  IF key \notin DOMAIN d.obj
  THEN IF options.AllowMissingPathOnRemove
       THEN [err |-> NoErr, con |-> d]
       ELSE [err |-> ErrMissing, con |-> d]
  ELSE [err |-> NoErr,
        con |-> [d EXCEPT !.obj = [k \in DOMAIN d.obj \ {key} |-> d.obj[k]]]]

partialDoc_len(d) == Cardinality(DOMAIN d.obj)

\* Go indexes from 0, a TLA+ sequence from 1: element idx is ary[idx + 1].
partialArray_set(d, key, val, options) ==
  LET c == toInt(key)
      sz == Len(d.ary)
      idx == IF c.i < 0 THEN c.i + sz ELSE c.i
  IN IF c.err # NoErr THEN [err |-> c.err, con |-> d]
     ELSE IF c.i < 0 /\ (~options.SupportNegativeIndices \/ c.i < -sz)
     THEN [err |-> ErrInvalidIndex, con |-> d]
     ELSE IF idx >= sz THEN [err |-> Panic, con |-> d]
     ELSE [err |-> NoErr, con |-> [d EXCEPT !.ary[idx + 1] = val]]

\* The capacity the Go runtime gives a slice of c pointers, none to spare,
\* that grows by one element: twice the capacity (fewer than 256 elements),
\* rounded up to what the size class of the allocation holds (64-bit build:
\* a pointer has 8 bytes; the size classes are those of the allocator up to
\* 512 bytes).
growslice(c) ==
  LET sizeClasses ==
        <<8, 16, 24, 32, 48, 64, 80, 96, 112, 128, 144, 160, 176, 192, 208, 224,
          240, 256, 288, 320, 352, 384, 416, 448, 480, 512>>
      roundupsize(size) ==
        sizeClasses[CHOOSE j \in DOMAIN sizeClasses :
                      /\ sizeClasses[j] >= size
                      /\ \A i \in 1..(j - 1) : sizeClasses[i] < size]
      PtrSize == 8
  IN roundupsize((IF c = 0 THEN 1 ELSE 2 * c) * PtrSize) \div PtrSize

\* *d = append(*d, val): the element goes into the next slot of the backing
\* array, or into a new backing array when there is none to spare.  add at
\* an index and remove make a slice of the exact length.
appended(d, val) ==
  IF d.spare # <<>>
  THEN [d EXCEPT !.ary = Append(d.ary, val), !.spare = Tail(d.spare)]
  ELSE [d EXCEPT !.ary = Append(d.ary, val),
                 !.spare = makeSlice(growslice(Len(d.ary)) - Len(d.ary) - 1)]

\* An array add that resolves a negative index against the length (as get,
\* set and remove do), so that -1 inserts before the last element.
partialArray_addBeforeLast(d, key, val, options) ==
  LET c == toInt(key)
      sz == Len(d.ary)
      idx == IF c.i < 0 THEN c.i + sz ELSE c.i
      fail(e) == [err |-> e, slot |-> key, con |-> d]
  IN IF key = minus
     THEN [err |-> NoErr, slot |-> KInt(Len(d.ary)),
           con |-> appended(d, val)]
     ELSE IF c.err # NoErr THEN fail(c.err)
     ELSE IF c.i > sz THEN fail(ErrInvalidIndex)
     ELSE IF c.i < 0 /\ (~options.SupportNegativeIndices \/ c.i < -sz)
     THEN fail(ErrInvalidIndex)
     ELSE [err |-> NoErr, slot |-> KInt(idx),
           con |-> [d EXCEPT !.ary = SubSeq(d.ary, 1, idx) \o <<val>>
                                       \o SubSeq(d.ary, idx + 1, Len(d.ary)),
                             !.spare = <<>>]]

partialArray_add(d, key, val, options) ==
  LET c == toInt(key)
      sz == Len(d.ary) + 1
      idx == IF c.i < 0 THEN c.i + sz ELSE c.i
      fail(e) == [err |-> e, slot |-> key, con |-> d]
  IN IF key = minus
     THEN [err |-> NoErr, slot |-> KInt(Len(d.ary)),
           con |-> appended(d, val)]
     ELSE IF c.err # NoErr THEN fail(c.err)
     ELSE IF c.i >= sz THEN fail(ErrInvalidIndex)
     ELSE IF c.i < 0 /\ (~options.SupportNegativeIndices \/ c.i < -sz)
     THEN fail(ErrInvalidIndex)
     ELSE [err |-> NoErr, slot |-> KInt(idx),
           con |-> [d EXCEPT !.ary = SubSeq(d.ary, 1, idx) \o <<val>>
                                       \o SubSeq(d.ary, idx + 1, Len(d.ary)),
                             !.spare = <<>>]]

partialArray_get(d, key, options) ==
  LET c == toInt(key)
      sz == Len(d.ary)
      idx == IF c.i < 0 THEN c.i + sz ELSE c.i
      miss(e) == [err |-> e, node |-> Nil, slot |-> key, held |-> FALSE]
  IN IF c.err # NoErr THEN miss(c.err)
     ELSE IF c.i < 0 /\ (~options.SupportNegativeIndices \/ c.i < -sz)
     THEN miss(ErrInvalidIndex)
     ELSE IF idx >= sz THEN miss(ErrInvalidIndex)
     ELSE IF d.ary[idx + 1] = Nil
     THEN [err |-> NoErr, node |-> NewNode(Empty), slot |-> KInt(idx), held |-> FALSE]
     ELSE [err |-> NoErr, node |-> d.ary[idx + 1], slot |-> KInt(idx), held |-> TRUE]

partialArray_remove(d, key, options) ==
  LET c == toInt(key)
      sz == Len(d.ary)
      idx == IF c.i < 0 THEN c.i + sz ELSE c.i
      invalid == [err |-> ErrInvalidIndex, con |-> d]
      missing == IF options.AllowMissingPathOnRemove
                 THEN [err |-> NoErr, con |-> d] ELSE invalid
  IN IF c.err # NoErr THEN [err |-> c.err, con |-> d]
     ELSE IF c.i >= sz THEN missing
     ELSE IF c.i < 0 /\ ~options.SupportNegativeIndices THEN invalid
     ELSE IF c.i < 0 /\ c.i < -sz THEN missing
     ELSE [err |-> NoErr,
           con |-> [d EXCEPT !.ary = SubSeq(d.ary, 1, idx)
                                       \o SubSeq(d.ary, idx + 2, Len(d.ary)),
                             !.spare = <<>>]]

partialArray_len(d) == Len(d.ary)

\* The container interface: dispatch on the dynamic type.
get(c, key, options) ==
  IF c.kind = eDoc THEN partialDoc_get(c, key, options)
  ELSE partialArray_get(c, key, options)

set(c, key, val, options) ==
  IF c.kind = eDoc THEN partialDoc_set(c, key, val, options)
  ELSE partialArray_set(c, key, val, options)

add(c, key, val, options) ==
  IF c.kind = eDoc THEN partialDoc_add(c, key, val, options)
  ELSE partialArray_add(c, key, val, options)

remove(c, key, options) ==
  IF c.kind = eDoc THEN partialDoc_remove(c, key, options)
  ELSE partialArray_remove(c, key, options)

len(c) == IF c.kind = eDoc THEN partialDoc_len(c) ELSE partialArray_len(c)

(***************************************************************************)
(* Places.  A container reached from the root is named by the slots (map   *)
(* keys, resolved array positions) that lead to the node holding it.       *)
(***************************************************************************)
\* The root container with the container at `slots` replaced by con: what a
\* mutation through the pointer findObject returned leaves in the tree.
RECURSIVE setAt(_, _, _)
setAt(top, slots, con) ==
  IF slots = <<>> THEN con
  ELSE With(childAt(top, Head(slots)), LAMBDA child :
       putChild(top, Head(slots),
                withCon(child, setAt(conOf(child), Tail(slots), con))))

\* findObject's loop over parts, from container doc.  found = FALSE is the
\* nil container.  top is doc with every node the walk parsed
\* (next.intoContainer()) left parsed; slots is the place of con under doc.
NotFound(top) == [found |-> FALSE, con |-> NoCon, slots |-> <<>>, top |-> top]

RECURSIVE walk(_, _, _)
walk(doc, parts, options) ==
  IF parts = <<>> THEN [found |-> TRUE, con |-> doc, slots |-> <<>>, top |-> doc]
  ELSE With(get(doc, Head(parts), options), LAMBDA g :
       IF g.err # NoErr THEN NotFound(doc)
       ELSE With(intoContainer(g.node), LAMBDA ic :
            IF ~ic.ok
            THEN NotFound(IF g.held THEN putChild(doc, g.slot, ic.n) ELSE doc)
            ELSE With(walk(conOf(ic.n), Tail(parts), options), LAMBDA r :
                 [found |-> r.found, con |-> r.con,
                  slots |-> <<g.slot>> \o r.slots,
                  top |-> putChild(doc, g.slot, withCon(ic.n, r.top))])))

\* key is the last element of the path when the walk reaches its parent;
\* the empty path and a walk that fails give the nil container and the empty
\* key (return nil, "").
findObject(pd, path, options) ==
  IF Len(path) = 0
  THEN [found |-> FALSE, con |-> NoCon, slots |-> <<>>, top |-> pd, key |-> KTxt("")]
  ELSE With(walk(pd, SubSeq(path, 1, Len(path) - 1), options), LAMBDA w :
       [found |-> w.found, con |-> w.con, slots |-> w.slots, top |-> w.top,
        key |-> IF w.found THEN path[Len(path)] ELSE KTxt("")])

\* The container at `slots` under the root container.
RECURSIVE conAt(_, _)
conAt(top, slots) ==
  IF slots = <<>> THEN top
  ELSE conAt(conOf(childAt(top, Head(slots))), Tail(slots))

(***************************************************************************)
(* Sizes of encodings (deepCopy measures the bytes MarshalCBOR returns).   *)
(***************************************************************************)
\* the UTF-8 length of the text strings of the model
TextLen(s) ==
  CASE s \in {""} -> 0
    [] s \in {"-", "a", "b", "c", "x", "y", "A"} -> 1
    [] s = "id" -> 2
    [] s \in {"foo", "bar", "baz", "qux", "zzz", "all", "eat", "bum", "id1", "id2"} -> 3
    [] s \in {"cows", "root"} -> 4
    [] s \in {"grass", "hello"} -> 5
    [] s = "object" -> 6
    [] s = "A48" -> 48
    [] s = "A49" -> 49

\* the head of a data item: major type and argument
HeadSize(arg) == IF arg < 24 THEN 1 ELSE IF arg < 256 THEN 2 ELSE 3

KeySize(k) ==
  IF k.t = "int" THEN HeadSize(IF k.i < 0 THEN -1 - k.i ELSE k.i)
  ELSE IF k.t = "wide" THEN 9
  ELSE HeadSize(TextLen(k.s)) + TextLen(k.s)

RECURSIVE SumOver(_, _)
SumOver(S, f) ==
  IF S = {} THEN 0
  ELSE LET e == CHOOSE e \in S : TRUE IN f[e] + SumOver(S \ {e}, f)

RECURSIVE Size(_)
Size(item) ==
  CASE item.ty \in {"null", "undef"} -> 1
    [] item.ty = "empty" -> 0
    [] item.ty = "int" -> HeadSize(IF item.i < 0 THEN -1 - item.i ELSE item.i)
    [] item.ty = "txt" -> HeadSize(TextLen(item.s)) + TextLen(item.s)
    [] item.ty = "ary" ->
         HeadSize(Len(item.a))
           + SumOver(DOMAIN item.a, [j \in DOMAIN item.a |-> Size(item.a[j])])
    [] item.ty = "map" ->
         HeadSize(Cardinality(DOMAIN item.m))
           + SumOver(DOMAIN item.m,
                     [k \in DOMAIN item.m |-> KeySize(k) + Size(item.m[k])])

\* A copy that counts the two quotes of the JSON form of a string.
deepCopyQuoted(src) ==
  IF src = Nil THEN [node |-> Nil, sz |-> 0]
  ELSE With(MarshalCBOR(src), LAMBDA a : [node |-> NewNode(a), sz |-> Size(a) + 2])

deepCopy(src) ==
  IF src = Nil THEN [node |-> Nil, sz |-> 0]
  ELSE With(MarshalCBOR(src), LAMBDA a : [node |-> NewNode(a), sz |-> Size(a)])

(***************************************************************************)
(* Operations.  From and Path are key sequences, Value an item; nils names *)
(* the fields that are nil (a nil Value is Empty).                         *)
(***************************************************************************)
Operation(op, from, path, value, nils) ==
  [Op |-> op, From |-> from, Path |-> path, Value |-> value, nils |-> nils]

Valid(o) ==
  LET fromNil == "From" \in o.nils
      pathNil == "Path" \in o.nils
      valueNil == o.Value = Empty
  IN CASE o.Op = OpAdd -> IF ~fromNil THEN ErrInvalidOperation ELSE NoErr
       [] o.Op = OpRemove ->
            IF ~fromNil \/ ~valueNil THEN ErrInvalidOperation ELSE NoErr
       [] o.Op = OpReplace -> IF ~fromNil THEN ErrInvalidOperation ELSE NoErr
       [] o.Op = OpMove ->
            IF fromNil \/ pathNil \/ ~valueNil THEN ErrInvalidOperation ELSE NoErr
       [] o.Op = OpCopy ->
            IF fromNil \/ pathNil \/ ~valueNil THEN ErrInvalidOperation ELSE NoErr
       [] o.Op = OpTest -> IF ~fromNil THEN ErrInvalidOperation ELSE NoErr
       [] OTHER -> ErrInvalidOperation

(***************************************************************************)
(* ensurePathExists.  cur is the place (slots) of the container the loop   *)
(* variable doc points to; the result is the error and the root container. *)
(***************************************************************************)
\* for i := from; i < to; i++ { doc.add(encodeArrayIdx(i), NewNode(nil)) }
RECURSIVE padNulls(_, _, _, _)
padNulls(con, from, to, options) ==
  IF from >= to THEN [err |-> NoErr, con |-> con]
  ELSE With(add(con, encodeArrayIdx(from), NewNode(Empty), options), LAMBDA r :
       IF r.err # NoErr THEN [err |-> r.err, con |-> con]
       ELSE padNulls(r.con, from + 1, to, options))

\* The branch of the loop body taken when doc.get fails: pad the current
\* array, create the missing container at key and pad it.  The result is
\* the error, the container doc after the branch, and the slot of the
\* container made.
\* A creation that pads the array it makes with one null too many.
ensureCreatePadsOneMore(doc, key, nxt, options) ==
  With(IF doc.kind = eAry /\ isIndex(key) /\ toInt(key).err # NoErr
       THEN [err |-> toInt(key).err, con |-> doc]
       ELSE IF doc.kind = eAry /\ isIndex(key) /\ toInt(key).i >= len(doc) + 1
       THEN padNulls(doc, len(doc), toInt(key).i, options)
       ELSE [err |-> NoErr, con |-> doc], LAMBDA padded :
  IF padded.err # NoErr THEN [err |-> padded.err, con |-> doc, slot |-> key]
  ELSE IF isIndex(nxt) /\ toInt(nxt).err # NoErr
  THEN [err |-> toInt(nxt).err, con |-> padded.con, slot |-> key]
  ELSE IF isIndex(nxt) /\ toInt(nxt).i < 0
          /\ (~options.SupportNegativeIndices \/ toInt(nxt).i < -1)
  THEN [err |-> ErrInvalidIndex, con |-> padded.con, slot |-> key]
  ELSE With(intoContainer(IF isIndex(nxt) THEN NewNode(rawCBORArray)
                          ELSE NewNode(rawCBORMap)).n, LAMBDA node :
       With(add(padded.con, key, node, options), LAMBDA a :
       IF a.err # NoErr THEN [err |-> a.err, con |-> padded.con, slot |-> key]
       ELSE With(padNulls(conOf(node), 0,
                          IF isIndex(nxt) /\ toInt(nxt).i > 0 THEN toInt(nxt).i + 1 ELSE 1,
                          options), LAMBDA inner :
            [err |-> inner.err,
             con |-> putChild(a.con, a.slot, withCon(node, inner.con)),
             slot |-> a.slot]))))

ensureCreate(doc, key, nxt, options) ==
  With(IF doc.kind = eAry /\ isIndex(key) /\ toInt(key).err # NoErr
       THEN [err |-> toInt(key).err, con |-> doc]
       ELSE IF doc.kind = eAry /\ isIndex(key) /\ toInt(key).i >= len(doc) + 1
       THEN padNulls(doc, len(doc), toInt(key).i, options)
       ELSE [err |-> NoErr, con |-> doc], LAMBDA padded :
  IF padded.err # NoErr THEN [err |-> padded.err, con |-> doc, slot |-> key]
  ELSE IF isIndex(nxt) /\ toInt(nxt).err # NoErr
  THEN [err |-> toInt(nxt).err, con |-> padded.con, slot |-> key]
  ELSE IF isIndex(nxt) /\ toInt(nxt).i < 0
          /\ (~options.SupportNegativeIndices \/ toInt(nxt).i < -1)
  THEN [err |-> ErrInvalidIndex, con |-> padded.con, slot |-> key]
  ELSE With(intoContainer(IF isIndex(nxt) THEN NewNode(rawCBORArray)
                          ELSE NewNode(rawCBORMap)).n, LAMBDA node :
       With(add(padded.con, key, node, options), LAMBDA a :
       IF a.err # NoErr THEN [err |-> a.err, con |-> padded.con, slot |-> key]
       ELSE With(padNulls(conOf(node), 0,
                          IF isIndex(nxt) /\ toInt(nxt).i > 0 THEN toInt(nxt).i ELSE 0,
                          options), LAMBDA inner :
            [err |-> inner.err,
             con |-> putChild(a.con, a.slot, withCon(node, inner.con)),
             slot |-> a.slot]))))

RECURSIVE ensureLoop(_, _, _, _, _)
ensureLoop(top, cur, path, pi, options) ==
  IF pi = Len(path) THEN [err |-> NoErr, pd |-> top]
  ELSE With(conAt(top, cur), LAMBDA doc :
       With(get(doc, path[pi], options), LAMBDA g :
       IF g.err # NoErr
       THEN With(ensureCreate(doc, path[pi], path[pi + 1], options), LAMBDA c :
            IF c.err # NoErr THEN [err |-> c.err, pd |-> setAt(top, cur, c.con)]
            ELSE ensureLoop(setAt(top, cur, c.con), cur \o <<c.slot>>, path,
                            pi + 1, options))
       ELSE With(intoContainer(g.node), LAMBDA ic :
            IF ~ic.ok
            THEN [err |-> ErrInvalid,
                  pd |-> IF g.held THEN setAt(top, cur, putChild(doc, g.slot, ic.n))
                         ELSE top]
            ELSE ensureLoop(setAt(top, cur, putChild(doc, g.slot, ic.n)),
                            cur \o <<g.slot>>, path, pi + 1, options))))

ensurePathExists(pd, path, options) ==
  IF Len(path) = 0 THEN [err |-> NoErr, pd |-> pd]
  ELSE ensureLoop(pd, <<>>, path, 1, options)

(***************************************************************************)
(* The six operations on the working root container pd.  Each returns the  *)
(* error, the root container after it, the accumulated copy size, and      *)
(* whether it rebound the root (replace at the empty path).                *)
(***************************************************************************)
Result(e, pd, acc, rebind) == [err |-> e, pd |-> pd, acc |-> acc, rebind |-> rebind]

\* con.add / con.remove / con.set on the container findObject returned
Mutated(f, r, acc) ==
  IF r.err # NoErr THEN Result(r.err, f.top, acc, FALSE)
  ELSE Result(NoErr, setAt(f.top, f.slots, r.con), acc, FALSE)

Patch_add(pd, op, acc, options) ==
  With(IF options.EnsurePathExistsOnAdd
       THEN ensurePathExists(pd, op.Path, options)
       ELSE [err |-> NoErr, pd |-> pd], LAMBDA e :
  IF e.err # NoErr THEN Result(e.err, e.pd, acc, FALSE)
  ELSE With(findObject(e.pd, op.Path, options), LAMBDA f :
       IF ~f.found THEN Result(ErrMissing, f.top, acc, FALSE)
       ELSE Mutated(f, add(f.con, f.key, NewNode(op.Value), options), acc)))

\* A remove that takes a parent that does not resolve for an error whatever
\* the options say.
Patch_removeStrict(pd, op, acc, options) ==
  With(findObject(pd, op.Path, options), LAMBDA f :
  IF ~f.found THEN Result(ErrMissing, f.top, acc, FALSE)
  ELSE Mutated(f, remove(f.con, f.key, options), acc))

Patch_remove(pd, op, acc, options) ==
  With(findObject(pd, op.Path, options), LAMBDA f :
  IF ~f.found
  THEN IF options.AllowMissingPathOnRemove THEN Result(NoErr, f.top, acc, FALSE)
       ELSE Result(ErrMissing, f.top, acc, FALSE)
  ELSE Mutated(f, remove(f.con, f.key, options), acc))

\* A replace that sets the final key without asking whether it exists.
Patch_replaceNoGet(pd, op, acc, options) ==
  IF Len(op.Path) = 0
  THEN With(intoContainer(NewNode(op.Value)).n, LAMBDA val :
       IF val.which = eOther THEN Result(ErrImpossible, pd, acc, FALSE)
       ELSE Result(NoErr, conOf(val), acc, TRUE))
  ELSE With(findObject(pd, op.Path, options), LAMBDA f :
       IF ~f.found THEN Result(ErrMissing, f.top, acc, FALSE)
       ELSE Mutated(f, set(f.con, f.key, NewNode(op.Value), options), acc))

Patch_replace(pd, op, acc, options) ==
  IF Len(op.Path) = 0
  THEN With(intoContainer(NewNode(op.Value)).n, LAMBDA val :
       IF val.which = eOther THEN Result(ErrImpossible, pd, acc, FALSE)
       ELSE Result(NoErr, conOf(val), acc, TRUE))
  ELSE With(findObject(pd, op.Path, options), LAMBDA f :
       IF ~f.found THEN Result(ErrMissing, f.top, acc, FALSE)
       ELSE IF get(f.con, f.key, options).err # NoErr
       THEN Result(ErrMissing, f.top, acc, FALSE)
       ELSE Mutated(f, set(f.con, f.key, NewNode(op.Value), options), acc))

\* A move that puts the source back when the destination cannot be added.
Patch_moveAtomic(pd, op, acc, options) ==
  With(findObject(pd, op.From, options), LAMBDA f :
  IF ~f.found THEN Result(ErrMissing, f.top, acc, FALSE)
  ELSE With(get(f.con, f.key, options), LAMBDA g :
       IF g.err # NoErr THEN Result(g.err, f.top, acc, FALSE)
       ELSE With(remove(f.con, f.key, options), LAMBDA r :
            IF r.err # NoErr THEN Result(r.err, f.top, acc, FALSE)
            ELSE With(findObject(setAt(f.top, f.slots, r.con), op.Path, options),
                      LAMBDA f2 :
                 IF ~f2.found THEN Result(ErrMissing, f.top, acc, FALSE)
                 ELSE With(add(f2.con, f2.key, g.node, options), LAMBDA a :
                      IF a.err # NoErr THEN Result(a.err, f.top, acc, FALSE)
                      ELSE Mutated(f2, a, acc))))))

\* A move that adds at the destination first and removes the source after.
Patch_moveAddFirst(pd, op, acc, options) ==
  With(findObject(pd, op.From, options), LAMBDA f :
  IF ~f.found THEN Result(ErrMissing, f.top, acc, FALSE)
  ELSE With(get(f.con, f.key, options), LAMBDA g :
       IF g.err # NoErr THEN Result(g.err, f.top, acc, FALSE)
       ELSE With(findObject(f.top, op.Path, options), LAMBDA f2 :
            IF ~f2.found THEN Result(ErrMissing, f2.top, acc, FALSE)
            ELSE With(add(f2.con, f2.key, g.node, options), LAMBDA a :
                 IF a.err # NoErr THEN Result(a.err, f2.top, acc, FALSE)
                 ELSE With(findObject(setAt(f2.top, f2.slots, a.con), op.From, options),
                           LAMBDA f3 :
                      IF ~f3.found THEN Result(ErrMissing, f3.top, acc, FALSE)
                      ELSE Mutated(f3, remove(f3.con, f3.key, options), acc))))))

Patch_move(pd, op, acc, options) ==
  With(findObject(pd, op.From, options), LAMBDA f :
  IF ~f.found THEN Result(ErrMissing, f.top, acc, FALSE)
  ELSE With(get(f.con, f.key, options), LAMBDA g :
       IF g.err # NoErr THEN Result(g.err, f.top, acc, FALSE)
       ELSE With(remove(f.con, f.key, options), LAMBDA r :
            IF r.err # NoErr THEN Result(r.err, f.top, acc, FALSE)
            ELSE With(findObject(setAt(f.top, f.slots, r.con), op.Path, options),
                      LAMBDA f2 :
                 IF ~f2.found THEN Result(ErrMissing, f2.top, acc, FALSE)
                 ELSE Mutated(f2, add(f2.con, f2.key, g.node, options), acc)))))

\* The outcomes of val.Equal(NewNode(op.Value)) on the node g.get returned
\* for the container f found: the error, and the root with the node as the
\* comparison left it.
Tested(f, g, op, acc) ==
  { Result(IF r.eq THEN NoErr ELSE ErrTestFailed,
           setAt(f.top, f.slots, putChild(f.con, g.slot, r.n)), acc, FALSE)
    : r \in Equal(g.node, NewNode(op.Value)) }

\* self.Equal(NewNode(op.Value)), self being a Node around the root
TestedRoot(pd, op, acc) ==
  { Result(IF r.eq THEN NoErr ELSE ErrTestFailed, conOf(r.n), acc, FALSE)
    : r \in Equal(nodeOf(pd), NewNode(op.Value)) }

\* A test that takes every failure of get for a null value.
Patch_testAnyMissing(pd, op, acc, options) ==
  IF Len(op.Path) = 0 THEN TestedRoot(pd, op, acc)
  ELSE With(findObject(pd, op.Path, options), LAMBDA f :
       IF ~f.found THEN {Result(ErrMissing, f.top, acc, FALSE)}
       ELSE With(get(f.con, f.key, options), LAMBDA g :
            IF g.err # NoErr \/ Node_isNull(g.node)
            THEN IF isNull(op.Value) THEN {Result(NoErr, f.top, acc, FALSE)}
                 ELSE {Result(ErrTestFailed, f.top, acc, FALSE)}
            ELSE IF op.Value = Empty THEN {Result(ErrTestFailed, f.top, acc, FALSE)}
            ELSE Tested(f, g, op, acc)))

\* A test that fails whenever the value at the path is null.
Patch_testNullFails(pd, op, acc, options) ==
  IF Len(op.Path) = 0 THEN TestedRoot(pd, op, acc)
  ELSE With(findObject(pd, op.Path, options), LAMBDA f :
       IF ~f.found THEN {Result(ErrMissing, f.top, acc, FALSE)}
       ELSE With(get(f.con, f.key, options), LAMBDA g :
            IF g.err # NoErr /\ g.err # ErrMissing
            THEN {Result(g.err, f.top, acc, FALSE)}
            ELSE IF g.err # NoErr \/ Node_isNull(g.node)
            THEN {Result(ErrTestFailed, f.top, acc, FALSE)}
            ELSE IF op.Value = Empty THEN {Result(ErrTestFailed, f.top, acc, FALSE)}
            ELSE Tested(f, g, op, acc)))

\* Patch.test: the results the operation may have (one for every outcome
\* of Equal).  The nodes the comparison parsed stay parsed in the document.
Patch_test(pd, op, acc, options) ==
  IF Len(op.Path) = 0 THEN TestedRoot(pd, op, acc)
  ELSE With(findObject(pd, op.Path, options), LAMBDA f :
       IF ~f.found THEN {Result(ErrMissing, f.top, acc, FALSE)}
       ELSE With(get(f.con, f.key, options), LAMBDA g :
            IF g.err # NoErr /\ g.err # ErrMissing
            THEN {Result(g.err, f.top, acc, FALSE)}
            ELSE IF g.err # NoErr \/ Node_isNull(g.node)
            THEN IF isNull(op.Value) THEN {Result(NoErr, f.top, acc, FALSE)}
                 ELSE {Result(ErrTestFailed, f.top, acc, FALSE)}
            ELSE IF op.Value = Empty THEN {Result(ErrTestFailed, f.top, acc, FALSE)}
            ELSE Tested(f, g, op, acc)))

\* A copy that takes the value out of its source, as a move does.
Patch_copyAsMove(pd, op, acc, options) == Patch_move(pd, op, acc, options)

\* A copy that fails as soon as the accumulated size reaches the limit.
Patch_copyAtLimit(pd, op, acc, options) ==
  With(findObject(pd, op.From, options), LAMBDA f :
  IF ~f.found THEN Result(ErrMissing, f.top, acc, FALSE)
  ELSE With(get(f.con, f.key, options), LAMBDA g :
       IF g.err # NoErr THEN Result(g.err, f.top, acc, FALSE)
       ELSE With(findObject(f.top, op.Path, options), LAMBDA f2 :
            IF ~f2.found THEN Result(ErrMissing, f2.top, acc, FALSE)
            ELSE With(deepCopy(IF g.held
                               THEN childAt(conAt(f2.top, f.slots), g.slot)
                               ELSE g.node), LAMBDA c :
                 IF options.AccumulatedCopySizeLimit > 0
                    /\ acc + c.sz >= options.AccumulatedCopySizeLimit
                 THEN Result(ErrCopySize, f2.top, acc + c.sz, FALSE)
                 ELSE Mutated(f2, add(f2.con, f2.key, c.node, options),
                              acc + c.sz)))))

\* val is the source node as the second findObject left it (the walk to
\* Path parses it in place when Path runs through it).
Patch_copy(pd, op, acc, options) ==
  With(findObject(pd, op.From, options), LAMBDA f :
  IF ~f.found THEN Result(ErrMissing, f.top, acc, FALSE)
  ELSE With(get(f.con, f.key, options), LAMBDA g :
       IF g.err # NoErr THEN Result(g.err, f.top, acc, FALSE)
       ELSE With(findObject(f.top, op.Path, options), LAMBDA f2 :
            IF ~f2.found THEN Result(ErrMissing, f2.top, acc, FALSE)
            ELSE With(deepCopy(IF g.held
                               THEN childAt(conAt(f2.top, f.slots), g.slot)
                               ELSE g.node), LAMBDA c :
                 IF options.AccumulatedCopySizeLimit > 0
                    /\ acc + c.sz > options.AccumulatedCopySizeLimit
                 THEN Result(ErrCopySize, f2.top, acc + c.sz, FALSE)
                 ELSE Mutated(f2, add(f2.con, f2.key, c.node, options),
                              acc + c.sz)))))

\* the switch on op.Op of Node.Patch: the results the operation may have
\* (test alone has more than one)
dispatch(pd, op, acc, options) ==
  CASE op.Op = OpAdd -> {Patch_add(pd, op, acc, options)}
    [] op.Op = OpRemove -> {Patch_remove(pd, op, acc, options)}
    [] op.Op = OpReplace -> {Patch_replace(pd, op, acc, options)}
    [] op.Op = OpMove -> {Patch_move(pd, op, acc, options)}
    [] op.Op = OpTest -> Patch_test(pd, op, acc, options)
    [] op.Op = OpCopy -> {Patch_copy(pd, op, acc, options)}

\* one iteration of the loop of Node.Patch: validate, then dispatch
applyOp(pd, op, acc, options) ==
  With(Valid(op), LAMBDA e :
  IF e # NoErr THEN {Result(e, pd, acc, FALSE)}
  ELSE dispatch(pd, op, acc, options))

(***************************************************************************)
(* Options                                                                 *)
(***************************************************************************)
Options(sni, limit, allowMissing, ensurePath) ==
  [SupportNegativeIndices |-> sni, AccumulatedCopySizeLimit |-> limit,
   AllowMissingPathOnRemove |-> allowMissing, EnsurePathExistsOnAdd |-> ensurePath]

NewOptions == Options(TRUE, 0, FALSE, FALSE)

(***************************************************************************)
(* Queries.  GetChild parses the Node and the nodes on the way to the      *)
(* parent of the path; n is the Node as the call leaves it.                *)
(***************************************************************************)
GetChild(n0, path, options) ==
  With(intoContainer(n0), LAMBDA ic :
    IF ~ic.ok THEN [err |-> ic.err, node |-> Nil, n |-> ic.n]
    ELSE With(findObject(conOf(ic.n), path, options), LAMBDA f :
         IF ~f.found
         THEN [err |-> ErrMissing, node |-> Nil, n |-> withCon(ic.n, f.top)]
         ELSE With(get(f.con, f.key, options), LAMBDA g :
              [err |-> g.err, node |-> g.node, n |-> withCon(ic.n, f.top)])))

GetValue(n0, path, options) ==
  With(GetChild(n0, path, options), LAMBDA c :
    [err |-> c.err,
     value |-> IF c.err # NoErr THEN Empty ELSE MarshalCBOR(c.node),
     n |-> c.n])

GetValueByPath(doc, path) == GetValue(NewNode(doc), path, NewOptions)

\* A predicate or a result of FindChildren: a path and encoded bytes.
PV(path, value) == [Path |-> path, Value |-> value]

\* the loop of assertObject over subpath, from the container doc
RECURSIVE assertFrom(_, _, _, _)
assertFrom(doc, subpath, value, options) ==
  IF subpath = <<>> THEN FALSE
  ELSE With(get(doc, Head(subpath), options), LAMBDA g :
       IF g.err # NoErr THEN FALSE
       ELSE IF Len(subpath) = 1
       THEN IF g.node = Nil THEN Node_isNull(value)
            ELSE \E r \in Equal(g.node, value) : r.eq
       ELSE IF g.node = Nil THEN FALSE
       ELSE With(intoContainer(g.node), LAMBDA ic :
            IF ~ic.ok THEN FALSE
            ELSE assertFrom(conOf(ic.n), Tail(subpath), value, options)))

\* An assertObject that takes a final key the container does not have for
\* null, as Patch.test does.
assertObjectMissingNull(node, subpath, value, options) ==
  With(intoContainer(node), LAMBDA ic :
    IF ~ic.ok THEN FALSE
    ELSE \/ assertFrom(conOf(ic.n), subpath, value, options)
         \/ /\ Len(subpath) = 1
            /\ get(conOf(ic.n), subpath[1], options).err # NoErr
            /\ Node_isNull(value))

assertObject(node, subpath, value, options) ==
  With(intoContainer(node), LAMBDA ic :
    IF ~ic.ok THEN FALSE
    ELSE assertFrom(conOf(ic.n), subpath, value, options))

\* res = append(res, r...) over the children in turn: every way of taking
\* one result of each child, in the order of the children
RECURSIVE Appended(_)
Appended(rs) ==
  IF rs = <<>> THEN {<<>>}
  ELSE {a \o b : a \in Head(rs), b \in Appended(Tail(rs))}

\* The results findChildNodes may return (one for every order in which the
\* maps yield their keys): sequences of nodePV, here the path, the bytes
\* *node.raw, and the Node.
RECURSIVE findChildNodes(_, _, _, _, _)
findChildNodes(node, value, parentpath, subpath, options) ==
  With(intoContainer(node).n, LAMBDA pn :
    IF pn.which = eOther THEN {<<>>}
    ELSE With(IF assertObject(pn, subpath, value, options)
              THEN <<[pv |-> PV(parentpath, pn.raw), node |-> pn]>>
              ELSE <<>>, LAMBDA own :
         IF pn.which = eAry
         THEN {own \o r :
                 r \in Appended([j \in 1..Len(pn.ary) |->
                         IF pn.ary[j] = Nil THEN {<<>>}
                         ELSE findChildNodes(pn.ary[j], value,
                                Append(parentpath, encodeArrayIdx(j - 1)),
                                subpath, options)])}
         ELSE UNION {
                {own \o r :
                   r \in Appended([j \in 1..Len(ord) |->
                           IF pn.doc[ord[j]] = Nil THEN {<<>>}
                           ELSE findChildNodes(pn.doc[ord[j]], value,
                                  Append(parentpath, ord[j]), subpath, options)])}
                : ord \in Orders(DOMAIN pn.doc)}))

\* The Node as findChildNodes leaves it: every node it visited parsed
\* (node.intoContainer()), a scalar marked eOther.
RECURSIVE visited(_)
visited(node) ==
  IF node = Nil THEN Nil
  ELSE With(intoContainer(node).n, LAMBDA pn :
       CASE pn.which = eDoc ->
              [pn EXCEPT !.doc = [k \in DOMAIN pn.doc |-> visited(pn.doc[k])]]
         [] pn.which = eAry ->
              [pn EXCEPT !.ary = seq([j \in 1..Len(pn.ary) |-> visited(pn.ary[j])])]
         [] OTHER -> pn)

\* for _, test := range tests[1:]: keep the results the test holds at
RECURSIVE filterBy(_, _, _)
filterBy(res, tests, options) ==
  IF tests = <<>> \/ res = <<>> THEN res
  ELSE filterBy(SelectSeq(res, LAMBDA r :
                  assertObject(r.node, Head(tests).Path, NewNode(Head(tests).Value),
                               options)),
                Tail(tests), options)

\* The results FindChildren may return, and the Node after the call.
FindChildren(n0, tests, options) ==
  IF Len(tests) = 0 THEN [results |-> {<<>>}, n |-> n0]
  ELSE [results |->
          { seq([j \in 1..Len(f) |-> f[j].pv]) :
              f \in { filterBy(res, Tail(tests), options) :
                        res \in findChildNodes(n0, NewNode(tests[1].Value), <<>>,
                                               tests[1].Path, options) } },
        n |-> visited(n0)]

(***************************************************************************)
(* Nodes as heap cells.  In the code a container holds pointers to Nodes   *)
(* and every operation mutates a container through the pointer findObject  *)
(* returned.  Here the heap h is a sequence of Nodes, Ref(i) is the        *)
(* pointer to h[i], and the doc and ary of a parsed Node hold pointers (or *)
(* Nil), so that two places holding the same pointer share one Node.  The  *)
(* container operations above apply unchanged to conOf(h[i]).  Patch.add   *)
(* is taken without EnsurePathExistsOnAdd (the options of SpecHeap).       *)
(***************************************************************************)
Ref(i) == [at |-> i]

Root == Ref(1)

\* cborUnmarshal allocates a Node for every element that is not null
RECURSIVE hoistDoc(_, _, _)
hoistDoc(h, doc, keys) ==
  IF keys = {} THEN [h |-> h, doc |-> doc]
  ELSE LET k == CHOOSE k \in keys : TRUE
       IN IF doc[k] = Nil THEN hoistDoc(h, doc, keys \ {k})
          ELSE hoistDoc(Append(h, hUnmarshalled(h, doc[k])),
                        [doc EXCEPT ![k] = Ref(Len(h) + 1)],
                        keys \ {k})

\* The elements a[j..] decoded into the slots of the backing array: a cell
\* a slot points to is given the bytes in place (Node.UnmarshalCBOR), a nil
\* slot gets a new cell, null and undefined set the slot to nil.
RECURSIVE hoistAry(_, _, _, _)
hoistAry(h, backing, a, j) ==
  IF j > Len(a)
  THEN [h |-> h, ary |-> SubSeq(backing, 1, Len(a)),
        spare |-> SubSeq(backing, Len(a) + 1, Len(backing))]
  ELSE IF a[j].ty \in {"null", "undef"}
  THEN hoistAry(h, [backing EXCEPT ![j] = Nil], a, j + 1)
  ELSE IF backing[j] = Nil
  THEN hoistAry(Append(h, hUnmarshalled(h, UnmarshalNode(a[j]))),
                [backing EXCEPT ![j] = Ref(Len(h) + 1)], a, j + 1)
  ELSE hoistAry([h EXCEPT ![backing[j].at] = UnmarshalCBOR(@, a[j]).n],
                backing, a, j + 1)

\* The members of a map are new cells, the entries left over stay; an array
\* gets a new slice or goes into the one left over, as in decodeSlice.
hIntoContainer(h, r) ==
  With(h[r.at], LAMBDA cell :
    IF cell.which # eRaw \/ cell.raw.ty \notin {"map", "ary"}
    THEN With(intoContainer(cell), LAMBDA ic :
         [h |-> [h EXCEPT ![r.at] = ic.n], ok |-> ic.ok, err |-> ic.err])
    ELSE IF cell.raw.ty = "map"
    THEN With(hoistDoc(h, decodeMap(cell.doc, cell.raw.m), DOMAIN cell.raw.m),
              LAMBDA x :
         [h |-> [x.h EXCEPT ![r.at] = [cell EXCEPT !.which = eDoc, !.doc = x.doc]],
          ok |-> TRUE, err |-> NoErr])
    ELSE With(hoistAry(h,
                IF Len(cell.raw.a) = 0
                   \/ Len(cell.ary) + Len(cell.spare) < Len(cell.raw.a)
                THEN makeSlice(Len(cell.raw.a))
                ELSE cell.ary \o cell.spare,
                cell.raw.a, 1), LAMBDA x :
         [h |-> [x.h EXCEPT ![r.at] = [cell EXCEPT !.which = eAry, !.ary = x.ary,
                                                   !.spare = x.spare]],
          ok |-> TRUE, err |-> NoErr]))

RECURSIVE hMarshalTo(_, _, _)
hMarshalTo(h, r, fuel) ==
  CASE r = Nil -> rawCBORNull
    [] fuel = 0 -> ITxt("")  \* never reached: fuel exceeds the nesting
    [] h[r.at].which = eRaw \/ h[r.at].which = eOther -> h[r.at].raw
    [] h[r.at].which = eDoc ->
         IMap([k \in DOMAIN h[r.at].doc |-> hMarshalTo(h, h[r.at].doc[k], fuel - 1)])
    [] OTHER ->
         IAry(seq([j \in 1..Len(h[r.at].ary) |->
                     hMarshalTo(h, h[r.at].ary[j], fuel - 1)]))

hMarshalCBOR(h, r) == hMarshalTo(h, r, MaxDepth)

\* con.get: the Node made for a nil entry is a new cell
hGet(h, c, key, options) ==
  With(get(conOf(h[c.at]), key, options), LAMBDA g :
    IF g.err = NoErr /\ ~g.held
    THEN [err |-> NoErr, h |-> Append(h, hNewNode(h, Empty, NullBuf)),
          node |-> Ref(Len(h) + 1)]
    ELSE [err |-> g.err, h |-> h, node |-> g.node])

RECURSIVE hWalk(_, _, _, _)
hWalk(h, c, parts, options) ==
  IF parts = <<>> THEN [found |-> TRUE, h |-> h, con |-> c]
  ELSE With(hGet(h, c, Head(parts), options), LAMBDA g :
       IF g.err # NoErr THEN [found |-> FALSE, h |-> g.h, con |-> Nil]
       ELSE With(hIntoContainer(g.h, g.node), LAMBDA ic :
            IF ~ic.ok THEN [found |-> FALSE, h |-> ic.h, con |-> Nil]
            ELSE hWalk(ic.h, g.node, Tail(parts), options)))

hFindObject(h, pd, path, options) ==
  IF Len(path) = 0 THEN [found |-> FALSE, h |-> h, con |-> Nil, key |-> KTxt("")]
  ELSE With(hWalk(h, pd, SubSeq(path, 1, Len(path) - 1), options), LAMBDA w :
       [found |-> w.found, h |-> w.h, con |-> w.con,
        key |-> IF w.found THEN path[Len(path)] ELSE KTxt("")])

\* A copy that hands on the pointer to the source Node.
hDeepCopyShallow(h, src) ==
  [h |-> h, node |-> src, sz |-> Size(hMarshalCBOR(h, src))]

hDeepCopy(h, src) ==
  IF src = Nil THEN [h |-> h, node |-> Nil, sz |-> 0]
  ELSE With(hMarshalCBOR(h, src), LAMBDA a :
       [h |-> Append(h, hNewNode(h, a, MarshalBuf)), node |-> Ref(Len(h) + 1),
        sz |-> Size(a)])

hResult(e, h, pd, acc) == [err |-> e, h |-> h, pd |-> pd, acc |-> acc]

\* con.add / con.remove / con.set through the pointer c
hMutated(h, c, r, pd, acc) ==
  IF r.err # NoErr THEN hResult(r.err, h, pd, acc)
  ELSE hResult(NoErr, [h EXCEPT ![c.at] = withCon(@, r.con)], pd, acc)

hPatch_add(h, pd, op, acc, options) ==
  With(hFindObject(h, pd, op.Path, options), LAMBDA f :
    IF ~f.found THEN hResult(ErrMissing, f.h, pd, acc)
    ELSE hMutated(Append(f.h, hNewNode(f.h, op.Value, ValueBuf)), f.con,
                  add(conOf(f.h[f.con.at]), f.key, Ref(Len(f.h) + 1), options),
                  pd, acc))

hPatch_remove(h, pd, op, acc, options) ==
  With(hFindObject(h, pd, op.Path, options), LAMBDA f :
    IF ~f.found
    THEN IF options.AllowMissingPathOnRemove THEN hResult(NoErr, f.h, pd, acc)
         ELSE hResult(ErrMissing, f.h, pd, acc)
    ELSE hMutated(f.h, f.con, remove(conOf(f.h[f.con.at]), f.key, options), pd, acc))

hPatch_replace(h, pd, op, acc, options) ==
  IF Len(op.Path) = 0
  THEN With(hIntoContainer(Append(h, hNewNode(h, op.Value, ValueBuf)),
                           Ref(Len(h) + 1)), LAMBDA ic :
       IF ~ic.ok THEN hResult(ErrImpossible, ic.h, pd, acc)
       ELSE hResult(NoErr, ic.h, Ref(Len(h) + 1), acc))
  ELSE With(hFindObject(h, pd, op.Path, options), LAMBDA f :
       IF ~f.found THEN hResult(ErrMissing, f.h, pd, acc)
       ELSE With(hGet(f.h, f.con, f.key, options), LAMBDA g :
            IF g.err # NoErr THEN hResult(ErrMissing, g.h, pd, acc)
            ELSE hMutated(Append(g.h, hNewNode(g.h, op.Value, ValueBuf)), f.con,
                          set(conOf(g.h[f.con.at]), f.key, Ref(Len(g.h) + 1), options),
                          pd, acc)))

hPatch_move(h, pd, op, acc, options) ==
  With(hFindObject(h, pd, op.From, options), LAMBDA f :
  IF ~f.found THEN hResult(ErrMissing, f.h, pd, acc)
  ELSE With(hGet(f.h, f.con, f.key, options), LAMBDA g :
       IF g.err # NoErr THEN hResult(g.err, g.h, pd, acc)
       ELSE With(hMutated(g.h, f.con, remove(conOf(g.h[f.con.at]), f.key, options),
                          pd, acc), LAMBDA r :
            IF r.err # NoErr THEN r
            ELSE With(hFindObject(r.h, pd, op.Path, options), LAMBDA f2 :
                 IF ~f2.found THEN hResult(ErrMissing, f2.h, pd, acc)
                 ELSE hMutated(f2.h, f2.con,
                               add(conOf(f2.h[f2.con.at]), f2.key, g.node, options),
                               pd, acc)))))

hPatch_copy(h, pd, op, acc, options) ==
  With(hFindObject(h, pd, op.From, options), LAMBDA f :
  IF ~f.found THEN hResult(ErrMissing, f.h, pd, acc)
  ELSE With(hGet(f.h, f.con, f.key, options), LAMBDA g :
       IF g.err # NoErr THEN hResult(g.err, g.h, pd, acc)
       ELSE With(hFindObject(g.h, pd, op.Path, options), LAMBDA f2 :
            IF ~f2.found THEN hResult(ErrMissing, f2.h, pd, acc)
            ELSE With(hDeepCopy(f2.h, g.node), LAMBDA cp :
                 IF /\ options.AccumulatedCopySizeLimit > 0
                    /\ acc + cp.sz > options.AccumulatedCopySizeLimit
                 THEN hResult(ErrCopySize, cp.h, pd, acc + cp.sz)
                 ELSE hMutated(cp.h, f2.con,
                               add(conOf(cp.h[f2.con.at]), f2.key, cp.node, options),
                               pd, acc + cp.sz)))))

\* n.isNull() through a pointer
hIsNull(h, r) == IF r = Nil THEN TRUE ELSE Node_isNull(h[r.at])

\* Node.Equal on the Nodes the pointers n and o lead to: the result and the
\* heap after the call, for every order in which the maps yield their keys.
RECURSIVE hEqual(_, _, _)
RECURSIVE hEqualMembers(_, _, _, _)
hEqual(h, n, o) ==
  IF hIsNull(h, n) THEN {[eq |-> hIsNull(h, o), h |-> h]}
  ELSE IF hIsNull(h, o) THEN {[eq |-> FALSE, h |-> h]}
  ELSE With(hIntoContainer(h, n).h, LAMBDA h1 :
       IF h1[n.at].which = eOther
       THEN {[eq |-> IF h1[o.at].which = eDoc \/ h1[o.at].which = eAry THEN FALSE
                     ELSE h1[n.at].raw = h1[o.at].raw,
              h |-> h1]}
       ELSE With(hIntoContainer(h1, o).h, LAMBDA h2 :
            IF h2[n.at].which # h2[o.at].which THEN {[eq |-> FALSE, h |-> h2]}
            ELSE IF h2[n.at].which = eDoc
            THEN IF Cardinality(DOMAIN h2[n.at].doc) # Cardinality(DOMAIN h2[o.at].doc)
                 THEN {[eq |-> FALSE, h |-> h2]}
                 ELSE UNION {hEqualMembers(h2, n, o, ord)
                               : ord \in Orders(DOMAIN h2[n.at].doc)}
            ELSE IF Len(h2[n.at].ary) # Len(h2[o.at].ary) THEN {[eq |-> FALSE, h |-> h2]}
            ELSE hEqualMembers(h2, n, o,
                               [j \in 1..Len(h2[n.at].ary) |-> KInt(j - 1)])))

hEqualMembers(h, n, o, slots) ==
  IF slots = <<>> THEN {[eq |-> TRUE, h |-> h]}
  ELSE With(Head(slots), LAMBDA k :
       IF h[n.at].which = eDoc /\ k \notin DOMAIN h[o.at].doc
       THEN {[eq |-> FALSE, h |-> h]}
       ELSE UNION { IF r.eq THEN hEqualMembers(r.h, n, o, Tail(slots)) ELSE {r}
                    : r \in hEqual(h, childAt(conOf(h[n.at]), k),
                                    childAt(conOf(h[o.at]), k)) })

\* Patch.test: NewNode(op.Value) is a new cell; the Nodes the walk and the
\* comparison parse are parsed in the heap.  With the empty path the Node
\* compared is one around the root container, here the root's own cell.
hPatch_test(h, pd, op, acc, options) ==
  IF Len(op.Path) = 0
  THEN { hResult(IF r.eq THEN NoErr ELSE ErrTestFailed, r.h, pd, acc)
         : r \in hEqual(Append(h, hNewNode(h, op.Value, ValueBuf)), pd,
                         Ref(Len(h) + 1)) }
  ELSE With(hFindObject(h, pd, op.Path, options), LAMBDA f :
       IF ~f.found THEN {hResult(ErrMissing, f.h, pd, acc)}
       ELSE With(hGet(f.h, f.con, f.key, options), LAMBDA g :
            IF g.err # NoErr /\ g.err # ErrMissing THEN {hResult(g.err, g.h, pd, acc)}
            ELSE IF g.err # NoErr \/ hIsNull(g.h, g.node)
            THEN IF isNull(op.Value) THEN {hResult(NoErr, g.h, pd, acc)}
                 ELSE {hResult(ErrTestFailed, g.h, pd, acc)}
            ELSE IF op.Value = Empty THEN {hResult(ErrTestFailed, g.h, pd, acc)}
            ELSE { hResult(IF r.eq THEN NoErr ELSE ErrTestFailed, r.h, pd, acc)
                   : r \in hEqual(Append(g.h, hNewNode(g.h, op.Value, ValueBuf)),
                                   g.node, Ref(Len(g.h) + 1)) }))

hDispatch(h, pd, op, acc, options) ==
  CASE op.Op = OpAdd -> {hPatch_add(h, pd, op, acc, options)}
    [] op.Op = OpRemove -> {hPatch_remove(h, pd, op, acc, options)}
    [] op.Op = OpReplace -> {hPatch_replace(h, pd, op, acc, options)}
    [] op.Op = OpMove -> {hPatch_move(h, pd, op, acc, options)}
    [] op.Op = OpTest -> hPatch_test(h, pd, op, acc, options)
    [] op.Op = OpCopy -> {hPatch_copy(h, pd, op, acc, options)}

hApplyOp(h, pd, op, acc, options) ==
  With(Valid(op), LAMBDA e :
    IF e # NoErr THEN {hResult(e, h, pd, acc)}
    ELSE hDispatch(h, pd, op, acc, options))

(***************************************************************************)
(* The loop of Node.Patch.  A loop state is the error, the working root    *)
(* pd, the accumulated copy size, whether pd still points into the Node    *)
(* (n.doc, &n.ary), and seen, the container the Node holds: while pd       *)
(* points into the Node what an operation does shows in the Node; a        *)
(* replace at the empty path rebinds pd and leaves the Node as it was.     *)
(***************************************************************************)
LoopState(pd, acc, bound, seen) ==
  [err |-> NoErr, pd |-> pd, acc |-> acc, bound |-> bound, seen |-> seen]

\* the loop states one iteration may lead to
loopStep(s, op, options) ==
  { [err |-> r.err, pd |-> r.pd, acc |-> r.acc,
     bound |-> (s.bound /\ ~r.rebind),
     seen |-> IF s.bound /\ ~r.rebind THEN r.pd ELSE s.seen]
    : r \in applyOp(s.pd, op, s.acc, options) }

\* for _, op := range ops, stopping at the first error: the loop states the
\* loop may end in
RECURSIVE loopFrom(_, _, _)
loopFrom(s, ops, options) ==
  IF ops = <<>> THEN {s}
  ELSE UNION { IF r.err # NoErr THEN {r} ELSE loopFrom(r, Tail(ops), options)
               : r \in loopStep(s, Head(ops), options) }

\* One whole call n.Patch(patch, options): the Node after it and the error,
\* for every way the call may go.
NodePatch(n0, patch, options) ==
  With(intoContainer(n0), LAMBDA ic :
  IF ~ic.ok THEN {[n |-> ic.n, err |-> ic.err]}
  ELSE { IF r.err # NoErr THEN [n |-> withCon(ic.n, r.seen), err |-> r.err]
         ELSE IF ic.n.which = r.pd.kind THEN [n |-> withCon(ic.n, r.pd), err |-> NoErr]
         ELSE [n |-> withCon(ic.n, r.seen), err |-> Panic]
         : r \in loopFrom(LoopState(conOf(ic.n), 0, TRUE, conOf(ic.n)), patch, options) })

(***************************************************************************)
(* State.                                                                  *)
(*   n      the Node the caller holds                                      *)
(*   st     "idle" (no Patch call since the Node was built, given bytes    *)
(*          or marshalled to JSON), "running" (inside Node.Patch),         *)
(*          "done" (Patch returned nil), "failed" (Patch returned an       *)
(*          error), "panicked"                                             *)
(*   p, opts  the arguments of the current Patch call                      *)
(*   pc     the number of operations of p the loop has completed           *)
(*   pd     the local pd of Node.Patch: the working root container         *)
(*   bound  whether pd still points into n (n.doc, &n.ary)                 *)
(*   acc    accumulatedCopySize                                            *)
(*   err    the error the last call returned                               *)
(*   base   history: the root container when the current call began        *)
(*   hist   history: orig, the Node before the first of the Patch calls     *)
(*          made since the last call other than Patch; log, the operations *)
(*          of these calls; used, the operations the behaviour has used;   *)
(*          allok, whether every one of these calls returned nil; opts0    *)
(*          and uni, the options of the first of them and whether all of   *)
(*          them used these options                                        *)
(*   cin, cout  input and result of a container-level call or a query      *)
(*   heap, hroot  the Nodes as heap cells (heap[1] is the Node) and the    *)
(*          pointer pd of the running call, in the specification that      *)
(*          keeps the Nodes on a heap                                      *)
(***************************************************************************)
VARIABLES n, st, p, opts, pc, pd, bound, acc, err, base, hist, cin, cout,
          heap, hroot

vars == <<n, st, p, opts, pc, pd, bound, acc, err, base, hist, cin, cout,
          heap, hroot>>

heapVars == <<heap, hroot>>

patchVars == <<n, st, p, opts, pc, pd, bound, acc, err, base, hist>>

\* all sequences over S of length at most k
SeqsUpTo(S, k) == UNION {[1..j -> S] : j \in 0..k}

NoCall == [op |-> "none"]

InitNode(docs) ==
  /\ n \in {NewNode(d) : d \in docs}
  /\ st = "idle"
  /\ p = <<>>
  /\ opts = NewOptions
  /\ pc = 0
  /\ pd = NoCon
  /\ bound = FALSE
  /\ acc = 0
  /\ err = NoErr
  /\ base = NoCon
  /\ hist = [orig |-> n, log |-> <<>>, used |-> 0, allok |-> TRUE,
             opts0 |-> NewOptions, uni |-> TRUE]
  /\ cin = NoCall
  /\ cout = NoCall
  /\ heap = <<withBuf(n, copyBytes(InputBuf, OwnBuf(1)))>>
  /\ hroot = Nil

\* A loop that runs the patch from its last operation to its first.
opAtReversed(patch, done) == patch[Len(patch) - done]

\* for _, op := range p: the operation the loop executes after pc of them
opAt(patch, done) == patch[done + 1]

\* Entry of Node.Patch(q, o): intoContainer, the options, the accumulator.
PatchBegin(q, o) ==
  \E ic \in {intoContainer(n)} :
     /\ n' = ic.n
     /\ p' = q
     /\ opts' = o
     /\ pc' = 0
     /\ acc' = 0
     /\ st' = IF ic.ok THEN "running" ELSE "failed"
     /\ err' = ic.err
     /\ pd' = IF ic.ok THEN conOf(ic.n) ELSE NoCon
     /\ bound' = ic.ok
     /\ base' = IF ic.ok THEN conOf(ic.n) ELSE NoCon
     /\ hist' = [hist EXCEPT !.log = @ \o q, !.used = @ + Len(q),
                             !.allok = @ /\ ic.ok,
                             !.opts0 = IF st = "idle" THEN o ELSE @,
                             !.uni = @ /\ (st = "idle" \/ o = hist.opts0)]
     /\ UNCHANGED <<cin, cout, heap, hroot>>

\* One iteration of the loop.
PatchStep ==
  /\ st = "running"
  /\ pc < Len(p)
  /\ \E r \in loopStep(LoopState(pd, acc, bound, conOf(n)), opAt(p, pc), opts) :
        /\ pd' = r.pd
        /\ acc' = r.acc
        /\ bound' = r.bound
        /\ n' = withCon(n, r.seen)
        /\ pc' = IF r.err = NoErr THEN pc + 1 ELSE pc
        /\ st' = IF r.err = NoErr THEN "running"
                 ELSE IF r.err = Panic THEN "panicked" ELSE "failed"
        /\ err' = r.err
        /\ hist' = [hist EXCEPT !.allok = @ /\ r.err = NoErr]
  /\ UNCHANGED <<p, opts, base, cin, cout, heap, hroot>>

\* A return that leaves the Node's own container in place.
PatchEndNoWriteBack ==
  /\ st = "running"
  /\ pc = Len(p)
  /\ st' = "done"
  /\ UNCHANGED <<n, p, opts, pc, pd, bound, acc, err, base, hist, cin, cout,
                 heap, hroot>>

\* After the loop: the switch on n.which that stores pd back into n.
PatchEnd ==
  /\ st = "running"
  /\ pc = Len(p)
  /\ IF n.which = pd.kind
     THEN /\ n' = withCon(n, pd)
          /\ st' = "done"
          /\ bound' = TRUE
          /\ hist' = hist
     ELSE /\ n' = n
          /\ st' = "panicked"
          /\ bound' = bound
          /\ hist' = [hist EXCEPT !.allok = FALSE]
  /\ UNCHANGED <<p, opts, pc, pd, acc, err, base, cin, cout, heap, hroot>>

\* A call other than Patch has left the Node as node: the history starts
\* again from it (the locals of the last Patch call are gone), and the call
\* counts as one of the MaxOps operations of the behaviour.
Restart(node) ==
  /\ n' = node
  /\ st' = "idle"
  /\ p' = <<>>
  /\ opts' = NewOptions
  /\ pc' = 0
  /\ pd' = NoCon
  /\ bound' = FALSE
  /\ acc' = 0
  /\ err' = NoErr
  /\ base' = NoCon
  /\ hist' = [orig |-> node, log |-> <<>>, used |-> hist.used + 1,
              allok |-> TRUE, opts0 |-> NewOptions, uni |-> TRUE]
  /\ UNCHANGED <<cin, cout, heap, hroot>>

\* n.MarshalJSON() outside a Patch call.
MarshalJSONCall ==
  /\ st \in {"idle", "done", "failed"}
  /\ cin = NoCall
  /\ hist.used < MaxOps
  /\ \E node \in MarshalJSON(n) : Restart(node)

\* n.UnmarshalCBOR(data) outside a Patch call.  The call that returns nil
\* gives the Node a new document, doc, ary and spare left as they are for
\* the next parse to decode into.  The call that returns an error changes
\* nothing.
UnmarshalCBORWith(data) ==
  /\ st \in {"idle", "done", "failed"}
  /\ cin = NoCall
  /\ hist.used < MaxOps
  /\ \E r \in {UnmarshalCBOR(n, data)} :
       IF r.err # NoErr THEN UNCHANGED vars ELSE Restart(r.n)

(***************************************************************************)
(* Inputs.                                                                 *)
(***************************************************************************)
\* a map item from a set of <<key, item>> pairs
MapOf(pairs) ==
  IMap([k \in {pr[1] : pr \in pairs} |-> (CHOOSE pr \in pairs : pr[1] = k)[2]])

Foo(a) == MapOf({<<KTxt("foo"), IAry(a)>>})

\* the document a container holds, as a data item
docOf(c) == MarshalCBOR(nodeOf(c))

Add(path, value) == Operation(OpAdd, <<>>, path, value, {"From"})
Remove(path) == Operation(OpRemove, <<>>, path, Empty, {"From"})
Replace(path, value) == Operation(OpReplace, <<>>, path, value, {"From"})
Move(from, path) == Operation(OpMove, from, path, Empty, {})
Copy(from, path) == Operation(OpCopy, from, path, Empty, {})
Test(path, value) == Operation(OpTest, <<>>, path, value, {"From"})

\* { "foo": [ "bar", "baz" ] }
DocFoo == MapOf({<<KTxt("foo"), IAry(<<ITxt("bar"), ITxt("baz")>>)>>})
\* [ "x", { "a": "y" } ]
DocAry == IAry(<<ITxt("x"), MapOf({<<KTxt("a"), ITxt("y")>>})>>)

\* { 0: [ "y" ], "0": [ "x" ] }: two keys that give one JSON key
DocKeys ==
  MapOf({<<KInt(0), IAry(<<ITxt("y")>>)>>, <<KTxt("0"), IAry(<<ITxt("x")>>)>>})

\* [ "q", { "b": "z" } ]: decoded into the slice a parsed DocAry leaves, the
\* map goes into the Node of { "a": "y" }
DocAryB == IAry(<<ITxt("q"), MapOf({<<KTxt("b"), ITxt("z")>>})>>)

\* the bytes given to UnmarshalCBOR (Empty: no well-formed data item)
ReloadData == {DocKeys, DocFoo, DocAryB, ITxt("bar"), Empty}

UnmarshalCBORCall == \E d \in ReloadData : UnmarshalCBORWith(d)

SeqDocs == {DocFoo, DocAry, ITxt("bar"), INull, Empty}

AddFooNeg1 == Add(<<KTxt("foo"), KInt(-1)>>, ITxt("qux"))

SeqOps ==
  { AddFooNeg1,
    Add(<<KInt(0)>>, ITxt("qux")),
    Replace(<<>>, MapOf({<<KTxt("a"), ITxt("x")>>})),
    Replace(<<>>, IAry(<<ITxt("y")>>)),
    Replace(<<>>, ITxt("bar")),
    Remove(<<KTxt("zzz")>>),
    Test(<<KTxt("foo"), KInt(2)>>, ITxt("qux")),
    Move(<<KTxt("foo"), KInt(0)>>, <<KTxt("zzz"), KInt(0)>>) }

SeqOptions == {NewOptions, Options(TRUE, 0, TRUE, TRUE)}

(***************************************************************************)
(* Spec: any number of Patch calls on one Node, MaxOps operations in all,   *)
(* with calls of MarshalJSON and UnmarshalCBOR between them.               *)
(***************************************************************************)
Init == InitNode(SeqDocs)

Begin ==
  /\ st \in {"idle", "done", "failed"}
  /\ \E q \in SeqsUpTo(SeqOps, MaxOps - hist.used), o \in SeqOptions :
       PatchBegin(q, o)

Next == Begin \/ PatchStep \/ PatchEnd \/ MarshalJSONCall \/ UnmarshalCBORCall

Spec == Init /\ [][Next]_vars

(***************************************************************************)
(* SpecOp: one Patch call of one operation, over every operation the paths *)
(* and values below make.                                                  *)
(***************************************************************************)
\* { "a": "x", "b": { "c": "y" } }
DocMap ==
  MapOf({<<KTxt("a"), ITxt("x")>>, <<KTxt("b"), MapOf({<<KTxt("c"), ITxt("y")>>})>>})

\* { "foo": [ "all", "grass", "cows", "eat" ] }
DocCows ==
  MapOf({<<KTxt("foo"), IAry(<<ITxt("all"), ITxt("grass"), ITxt("cows"), ITxt("eat")>>)>>})

\* { "a": null, "b": undefined, "foo": [ "bar", null ] }
DocNull ==
  MapOf({<<KTxt("a"), INull>>, <<KTxt("b"), IUndef>>,
         <<KTxt("foo"), IAry(<<ITxt("bar"), INull>>)>>})

\* { "a": { "b": {}, "c": undefined }, "b": "x" }: an undefined below the
\* top level, which stays in the bytes until the map at "a" is parsed
DocUndef ==
  MapOf({<<KTxt("a"), MapOf({<<KTxt("b"), IMap(NoDoc)>>, <<KTxt("c"), IUndef>>})>>,
         <<KTxt("b"), ITxt("x")>>})

\* DocUndef but for the value at "b": a comparison with DocUndef meets the
\* difference before or after it has parsed the map at "a"
DocUndefY ==
  MapOf({<<KTxt("a"), MapOf({<<KTxt("b"), IMap(NoDoc)>>, <<KTxt("c"), INull>>})>>,
         <<KTxt("b"), ITxt("y")>>})

OpDocs == {DocFoo, DocMap, DocAry, DocCows, DocNull, DocUndef}

OpPaths ==
  { <<>>, <<KTxt("a")>>, <<KTxt("b")>>, <<KTxt("b"), KTxt("c")>>,
    <<KTxt("foo")>>, <<KTxt("foo"), KInt(0)>>, <<KTxt("foo"), minus>>,
    <<KTxt("foo"), KInt(-1)>>, <<KTxt("zzz")>>, <<KTxt("zzz"), KInt(0)>>,
    <<KInt(0)>>, <<KInt(1), KTxt("a")>>, <<KInt(2)>>,
    <<KTxt("foo"), KInt(1)>>, <<KTxt("foo"), KInt(3)>>, <<KTxt("foo"), KInt(4)>>,
    <<KTxt("a"), KTxt("b"), KTxt("x")>> }

OpValues == {ITxt("qux"), MapOf({<<KTxt("a"), ITxt("x")>>}), IAry(<<ITxt("y")>>)}

\* expected values of test: the values above, the null forms (Empty is the
\* absent value), values the documents hold, and whole documents
OpTestValues ==
  OpValues \cup OpDocs
    \cup {DocUndefY, INull, IUndef, Empty, ITxt("x"), ITxt("bar"),
          IAry(<<ITxt("bar"), ITxt("baz")>>), MapOf({<<KTxt("c"), ITxt("y")>>})}

OpOps ==
  {Add(q, v) : q \in OpPaths, v \in OpValues}
    \cup {Remove(q) : q \in OpPaths}
    \cup {Replace(q, v) : q \in OpPaths, v \in OpValues}
    \cup {Test(q, v) : q \in OpPaths, v \in OpTestValues}
    \cup {Move(f, q) : f \in OpPaths, q \in OpPaths}
    \cup {Copy(f, q) : f \in OpPaths, q \in OpPaths}

OpOptions ==
  {NewOptions, Options(FALSE, 0, FALSE, FALSE), Options(TRUE, 0, TRUE, TRUE)}

InitOp == InitNode(OpDocs)

BeginOp ==
  /\ st = "idle"
  /\ \E op \in OpOps, o \in OpOptions : PatchBegin(<<op>>, o)

NextOp == BeginOp \/ PatchStep \/ PatchEnd

SpecOp == InitOp /\ [][NextOp]_vars

(***************************************************************************)
(* SpecArr: one call of add, remove, get or set on a partialArray.         *)
(***************************************************************************)
ArrElems == {NewNode(ITxt("x")), NewNode(ITxt("y")), Nil}

ArrCons ==
  {[kind |-> eAry, obj |-> NoDoc, ary |-> a, spare |-> <<>>] : a \in SeqsUpTo(ArrElems, MaxArr)}

\* 2^63 and -(2^63 + 1) as keys
WideKeys == {KWide("9223372036854775808"), KWide("-9223372036854775809")}

ArrKeys ==
  {KInt(i) : i \in (-(MaxArr + 2))..(MaxArr + 2)} \cup {minus, KTxt("a")} \cup WideKeys

ArrOptions == {Options(s, 0, m, FALSE) : s \in BOOLEAN, m \in BOOLEAN}

ArrVal == NewNode(ITxt("qux"))

Call(name, c, k, o) == [op |-> name, con |-> c, key |-> k, val |-> ArrVal, options |-> o]

ArrAdd ==
  /\ cin = NoCall
  /\ \E c \in ArrCons, k \in ArrKeys, o \in ArrOptions :
       /\ cin' = Call("add", c, k, o)
       /\ cout' = partialArray_add(c, k, ArrVal, o)
       /\ UNCHANGED <<patchVars, heapVars>>

ArrRemove ==
  /\ cin = NoCall
  /\ \E c \in ArrCons, k \in ArrKeys, o \in ArrOptions :
       /\ cin' = Call("remove", c, k, o)
       /\ cout' = partialArray_remove(c, k, o)
       /\ UNCHANGED <<patchVars, heapVars>>

ArrGet ==
  /\ cin = NoCall
  /\ \E c \in ArrCons, k \in ArrKeys, o \in ArrOptions :
       /\ cin' = Call("get", c, k, o)
       /\ cout' = partialArray_get(c, k, o)
       /\ UNCHANGED <<patchVars, heapVars>>

ArrSet ==
  /\ cin = NoCall
  /\ \E c \in ArrCons, k \in ArrKeys, o \in ArrOptions :
       /\ cin' = Call("set", c, k, o)
       /\ cout' = partialArray_set(c, k, ArrVal, o)
       /\ UNCHANGED <<patchVars, heapVars>>

InitArr == InitNode({DocFoo})

NextArr == ArrAdd \/ ArrRemove \/ ArrGet \/ ArrSet

SpecArr == InitArr /\ [][NextArr]_vars

(***************************************************************************)
(* SpecCopy: Patch calls of copy operations under a limit on the           *)
(* accumulated copy size.  The text "A48" stands for the string of 48      *)
(* letters A, "A49" for that of 49.                                        *)
(***************************************************************************)
DocA(s) == Foo(<<ITxt("A"), ITxt(s)>>)

CopyDocs == {DocA("A48"), DocA("A49")}

CopyLast == Copy(<<KTxt("foo"), KInt(1)>>, <<KTxt("foo"), minus>>)

CopyOps ==
  { CopyLast,
    Copy(<<KTxt("foo"), KInt(0)>>, <<KTxt("foo"), minus>>),
    Copy(<<KTxt("foo")>>, <<KTxt("zzz")>>),
    Copy(<<KTxt("zzz"), KInt(1)>>, <<KTxt("foo"), KInt(0)>>) }

CopyLimits == {0, 52, 100}

InitCopy == InitNode(CopyDocs)

BeginCopy ==
  /\ st \in {"idle", "done", "failed"}
  /\ \E q \in SeqsUpTo(CopyOps, MaxOps - hist.used), l \in CopyLimits :
       PatchBegin(q, Options(TRUE, l, FALSE, FALSE))

NextCopy == BeginCopy \/ PatchStep \/ PatchEnd

SpecCopy == InitCopy /\ [][NextCopy]_vars

(***************************************************************************)
(* SpecGet: one GetValue call on the Node, and after a call that returned  *)
(* bytes a Patch call of the test operation on the same path with these    *)
(* bytes (or, the bytes being null, with the absent value).  Before the    *)
(* GetValue call the Node may be marshalled to JSON and given new bytes.   *)
(***************************************************************************)
GetDocs == OpDocs

GetOptions == {NewOptions, Options(FALSE, 0, FALSE, FALSE)}

Query(path, o, node) == [op |-> "GetValue", path |-> path, options |-> o, n |-> node]

GetValueCall ==
  /\ st = "idle"
  /\ cin = NoCall
  /\ \E q \in OpPaths, o \in GetOptions :
       \E r \in {GetValue(n, q, o)} :
         /\ cin' = Query(q, o, n)
         /\ cout' = [err |-> r.err, value |-> r.value]
         /\ n' = r.n
  /\ UNCHANGED <<st, p, opts, pc, pd, bound, acc, err, base, hist, heap, hroot>>

TestBack ==
  /\ st = "idle"
  /\ cin # NoCall
  /\ cout.err = NoErr
  /\ \E v \in {cout.value} \cup (IF isNull(cout.value) THEN {Empty} ELSE {}) :
       PatchBegin(<<Test(cin.path, v)>>, cin.options)

InitGet == InitNode(GetDocs)

NextGet ==
  \/ GetValueCall
  \/ TestBack
  \/ PatchStep
  \/ PatchEnd
  \/ MarshalJSONCall
  \/ UnmarshalCBORCall

SpecGet == InitGet /\ [][NextGet]_vars

(***************************************************************************)
(* SpecEq: Equal on three Nodes, each in any state of materialization.     *)
(***************************************************************************)
\* The Nodes that hold an item: the raw Node, the Node after a failed
\* intoContainer (eOther), and the parsed Node with every member in any of
\* its states (a null member is the nil pointer).
RECURSIVE Variants(_)
Variants(item) ==
  LET raw == [which |-> eRaw, raw |-> item, doc |-> NoDoc, ary |-> <<>>, spare |-> <<>>]
      below(c) == IF c.ty \in {"null", "undef"} THEN {Nil} ELSE Variants(c)
  IN CASE item.ty = "map" ->
            {raw} \cup
            { [raw EXCEPT !.which = eDoc, !.doc = f] :
                f \in { g \in [DOMAIN item.m -> UNION {below(item.m[k]) : k \in DOMAIN item.m}] :
                          \A k \in DOMAIN item.m : g[k] \in below(item.m[k]) } }
       [] item.ty = "ary" ->
            {raw} \cup
            { [raw EXCEPT !.which = eAry, !.ary = f] :
                f \in { g \in [1..Len(item.a) -> UNION {below(item.a[j]) : j \in 1..Len(item.a)}] :
                          \A j \in 1..Len(item.a) : g[j] \in below(item.a[j]) } }
       [] OTHER -> {raw, [raw EXCEPT !.which = eOther]}

EqItems ==
  { INull, IUndef, ITxt("x"), ITxt("y"),
    IAry(<<ITxt("x"), ITxt("y")>>), IAry(<<ITxt("y"), ITxt("x")>>),
    IAry(<<ITxt("x"), INull>>), IAry(<<ITxt("x"), IUndef>>),
    MapOf({<<KTxt("a"), ITxt("x")>>}),
    MapOf({<<KTxt("a"), ITxt("x")>>, <<KTxt("b"), ITxt("y")>>}),
    MapOf({<<KTxt("a"), INull>>}) }

\* with the nil pointer, the zero Node, and the Nodes Patch.test builds
\* around a container (no raw bytes)
EqNodes ==
  UNION {Variants(i) : i \in EqItems}
    \cup {Nil, [which |-> eRaw, raw |-> Empty, doc |-> NoDoc, ary |-> <<>>,
                spare |-> <<>>]}
    \cup {nodeOf(conOf(v)) : v \in {w \in Variants(DocFoo) : w.which = eDoc}}

InitEq == InitNode({DocFoo})

EqualCall ==
  /\ cin = NoCall
  /\ \E a \in EqNodes, b \in EqNodes, c \in EqNodes :
       /\ cin' = [op |-> "Equal", a |-> a, b |-> b, c |-> c]
       /\ \E aa \in Equal(a, a), ab \in Equal(a, b), ba \in Equal(b, a),
             bc \in Equal(b, c), ac \in Equal(a, c) :
            cout' = [aa |-> aa.eq, ab |-> ab.eq, ba |-> ba.eq, bc |-> bc.eq,
                     ac |-> ac.eq]
       /\ UNCHANGED <<patchVars, heapVars>>

NextEq == EqualCall

SpecEq == InitEq /\ [][NextEq]_vars

(***************************************************************************)
(* SpecHeap: Patch calls on the Node kept as heap cells.  n stays the Node *)
(* before the first call.                                                  *)
(***************************************************************************)
HeapBegin(q, o) ==
  \E ic \in {hIntoContainer(heap, Root)} :
     /\ heap' = ic.h
     /\ hroot' = IF ic.ok THEN Root ELSE Nil
     /\ p' = q
     /\ opts' = o
     /\ pc' = 0
     /\ acc' = 0
     /\ st' = IF ic.ok THEN "running" ELSE "failed"
     /\ err' = ic.err
     /\ hist' = [hist EXCEPT !.log = @ \o q, !.used = @ + Len(q),
                             !.allok = @ /\ ic.ok,
                             !.opts0 = IF st = "idle" THEN o ELSE @,
                             !.uni = @ /\ (st = "idle" \/ o = hist.opts0)]
     /\ UNCHANGED <<n, pd, bound, base, cin, cout>>

HeapStep ==
  /\ st = "running"
  /\ hroot # Nil
  /\ pc < Len(p)
  /\ \E r \in hApplyOp(heap, hroot, opAt(p, pc), acc, opts) :
        /\ heap' = r.h
        /\ hroot' = r.pd
        /\ acc' = r.acc
        /\ pc' = IF r.err = NoErr THEN pc + 1 ELSE pc
        /\ st' = IF r.err = NoErr THEN "running"
                 ELSE IF r.err = Panic THEN "panicked" ELSE "failed"
        /\ err' = r.err
        /\ hist' = [hist EXCEPT !.allok = @ /\ r.err = NoErr]
  /\ UNCHANGED <<n, p, opts, pd, bound, base, cin, cout>>

\* the write-back: n.doc = pd, n.ary = *pd
HeapEnd ==
  /\ st = "running"
  /\ hroot # Nil
  /\ pc = Len(p)
  /\ IF heap[1].which = heap[hroot.at].which
     THEN /\ heap' = [heap EXCEPT ![1] = withCon(@, conOf(heap[hroot.at]))]
          /\ st' = "done"
          /\ hist' = hist
     ELSE /\ heap' = heap
          /\ st' = "panicked"
          /\ hist' = [hist EXCEPT !.allok = FALSE]
  /\ hroot' = Nil
  /\ UNCHANGED <<n, p, opts, pc, pd, bound, acc, err, base, cin, cout>>

Str(s) == <<KTxt(s)>>

\* copies of a container to a new key, and to a key inside the source
HeapCopies ==
  { Copy(Str("foo"), Str("zzz")), Copy(Str("b"), Str("zzz")),
    Copy(Str("b"), <<KTxt("b"), KTxt("a")>>) }

HeapPaths ==
  { <<KTxt("foo"), KInt(0)>>, <<KTxt("zzz"), KInt(0)>>,
    <<KTxt("b"), KTxt("c")>>, <<KTxt("zzz"), KTxt("c")>>,
    <<KTxt("b"), KTxt("a"), KTxt("c")>> }

HeapOps ==
  HeapCopies \cup {Replace(q, ITxt("qux")) : q \in HeapPaths}
    \cup {Remove(q) : q \in HeapPaths}
    \cup {Add(q, ITxt("qux")) : q \in HeapPaths}

HeapDocs == {DocFoo, DocMap}

InitHeap == InitNode(HeapDocs)

BeginHeap ==
  /\ st \in {"idle", "done"}
  /\ hist.used < MaxOps - 1
  /\ \E q \in SeqsUpTo(HeapOps, MaxOps - 1 - hist.used) \ {<<>>} :
       HeapBegin(q, NewOptions)

NextHeap == BeginHeap \/ HeapStep \/ HeapEnd

SpecHeap == InitHeap /\ [][NextHeap]_vars

(***************************************************************************)
(* SpecFind: Patch calls on the Node, then one FindChildren call on it.    *)
(***************************************************************************)
\* [ "root", [ "object", { "id": "id1" } ], [ "object", { "id": "id2" } ] ]
DocS6 ==
  IAry(<<ITxt("root"),
         IAry(<<ITxt("object"), MapOf({<<KTxt("id"), ITxt("id1")>>})>>),
         IAry(<<ITxt("object"), MapOf({<<KTxt("id"), ITxt("id2")>>})>>)>>)

\* { "a": { "a": null, "c": "y" }, "b": { "a": null, "c": "y" },
\*   "foo": [ { "c": "y" }, "bar" ] }
DocTwins ==
  MapOf({<<KTxt("a"), MapOf({<<KTxt("a"), INull>>, <<KTxt("c"), ITxt("y")>>})>>,
         <<KTxt("b"), MapOf({<<KTxt("a"), INull>>, <<KTxt("c"), ITxt("y")>>})>>,
         <<KTxt("foo"), IAry(<<MapOf({<<KTxt("c"), ITxt("y")>>}), ITxt("bar")>>)>>})

FindDocs == {DocS6, DocTwins, DocFoo, DocNull, ITxt("bar")}

S6Tests == <<PV(<<KInt(0)>>, ITxt("object")), PV(<<KInt(1), KTxt("id")>>, ITxt("id1"))>>

FindTests ==
  { S6Tests[1], S6Tests[2],
    PV(<<KTxt("c")>>, ITxt("y")), PV(<<KTxt("a")>>, Empty), PV(<<KTxt("zzz")>>, Empty),
    PV(<<KInt(1)>>, INull), PV(<<KInt(0)>>, ITxt("bar")), PV(<<KInt(-1)>>, ITxt("bar")),
    PV(<<>>, ITxt("bar")) }

FindOptions == {NewOptions, Options(FALSE, 0, FALSE, FALSE)}

FindOps ==
  { Add(<<KTxt("foo"), minus>>, ITxt("qux")),
    Add(<<KTxt("zzz"), KInt(1)>>, ITxt("bar")),
    Replace(<<KTxt("b"), KTxt("c")>>, ITxt("qux")),
    Replace(<<>>, DocFoo) }

InitFind == InitNode(FindDocs)

BeginFind ==
  /\ st \in {"idle", "done", "failed"}
  /\ cin = NoCall
  /\ hist.used < MaxOps - 1
  /\ \E q \in SeqsUpTo(FindOps, MaxOps - 1 - hist.used) \ {<<>>} :
       PatchBegin(q, Options(TRUE, 0, FALSE, TRUE))

FindCall ==
  /\ st \in {"idle", "done", "failed"}
  /\ cin = NoCall
  /\ \E t \in SeqsUpTo(FindTests, 2), o \in FindOptions :
       \E r \in {FindChildren(n, t, o)} :
         \E res \in r.results :
           /\ cin' = [op |-> "FindChildren", tests |-> t, options |-> o, n |-> n]
           /\ cout' = [result |-> res]
           /\ n' = r.n
  /\ UNCHANGED <<st, p, opts, pc, pd, bound, acc, err, base, hist, heap, hroot>>

NextFind == BeginFind \/ PatchStep \/ PatchEnd \/ FindCall

SpecFind == InitFind /\ [][NextFind]_vars

(***************************************************************************)
(* SpecEnsure: one Patch call of one add with EnsurePathExistsOnAdd, over  *)
(* documents and paths of the path-creation test cases.                    *)
(***************************************************************************)
\* {}, { "a": [] }, { "a": [ { "b": "x" } ] }
EnsDocs ==
  { rawCBORMap, MapOf({<<KTxt("a"), IAry(<<>>)>>}),
    MapOf({<<KTxt("a"), IAry(<<MapOf({<<KTxt("b"), ITxt("x")>>})>>)>>}),
    DocFoo, DocNull }

EnsPaths ==
  { <<KTxt("a")>>, <<KTxt("a"), KTxt("b")>>, <<KTxt("a"), KTxt("b"), KTxt("c")>>,
    <<KTxt("a"), KInt(0), KTxt("b")>>, <<KTxt("a"), KTxt("b"), KInt(0)>>,
    <<KTxt("a"), KTxt("b"), KInt(3)>>, <<KTxt("a"), KTxt("b"), KInt(-1)>>,
    <<KTxt("a"), KTxt("b"), KInt(-1), KTxt("c")>>, <<KTxt("a"), KInt(-1)>>,
    <<KTxt("a"), KInt(0), KInt(0)>>, <<KTxt("a"), KInt(2), KTxt("b"), KTxt("c")>>,
    <<KTxt("a"), KInt(1), KTxt("b"), KTxt("c")>>,
    <<KTxt("a"), KTxt("b"), minus>>, <<KTxt("a"), minus, KTxt("b")>>,
    <<KTxt("a"), KTxt("b"), KInt(-2)>>,
    <<KTxt("foo"), KInt(3), KTxt("a")>>, <<KTxt("foo"), KInt(4), KInt(1)>>,
    <<KTxt("foo"), KInt(2), KTxt("a")>>, <<KTxt("foo"), KInt(0), KTxt("a")>>,
    <<KTxt("foo"), KInt(1), KInt(0)>>, <<KTxt("zzz"), minus>> }

EnsValues == {ITxt("hello"), MapOf({<<KTxt("a"), ITxt("x")>>})}

EnsOptions == {Options(sni, 0, FALSE, TRUE) : sni \in BOOLEAN}

InitEnsure == InitNode(EnsDocs)

BeginEnsure ==
  /\ st = "idle"
  /\ \E q \in EnsPaths, v \in EnsValues, o \in EnsOptions :
       PatchBegin(<<Add(q, v)>>, o)

NextEnsure == BeginEnsure \/ PatchStep \/ PatchEnd

SpecEnsure == InitEnsure /\ [][NextEnsure]_vars

(***************************************************************************)
(* SpecRemove: one Patch call of one remove, under every combination of    *)
(* SupportNegativeIndices and AllowMissingPathOnRemove.                    *)
(***************************************************************************)
RemDocs == OpDocs \cup {IAry(<<>>)}

RemPaths ==
  OpPaths \cup
  { <<KInt(10)>>, <<KInt(-10)>>, <<KInt(-1)>>, <<KInt(-2)>>, <<KInt(-3)>>,
    <<KInt(10), KTxt("a")>>, <<KTxt("a"), KTxt("b"), KTxt("c")>>,
    <<KTxt("zzz"), KTxt("a"), KTxt("b")>>, <<KTxt("foo"), KInt(-3)>>,
    <<KTxt("foo"), KInt(-5)>>, <<KTxt("foo"), KInt(0), KTxt("a")>> }
  \cup {<<w>> : w \in WideKeys} \cup {<<KTxt("foo"), w>> : w \in WideKeys}
  \cup {<<KTxt("foo"), w, KTxt("a")>> : w \in WideKeys}

RemOptions == {Options(sni, 0, allow, FALSE) : sni \in BOOLEAN, allow \in BOOLEAN}

InitRemove == InitNode(RemDocs)

BeginRemove ==
  /\ st = "idle"
  /\ \E q \in RemPaths, o \in RemOptions : PatchBegin(<<Remove(q)>>, o)

NextRemove == BeginRemove \/ PatchStep \/ PatchEnd

SpecRemove == InitRemove /\ [][NextRemove]_vars

(***************************************************************************)
(* SpecValid: one Patch call of one operation whose fields are present or  *)
(* nil in every combination, over every op code and an unknown one.        *)
(***************************************************************************)
\* the op codes: the reserved one, the six operations, and one beyond them
ValidCodes == OpReserved..(OpTest + 1)

\* a field of type Path: nil, or a path
ValidPaths ==
  { [nil |-> TRUE, path |-> <<>>], [nil |-> FALSE, path |-> <<>>],
    [nil |-> FALSE, path |-> <<KTxt("a")>>],
    [nil |-> FALSE, path |-> <<KTxt("foo"), KInt(1)>>],
    [nil |-> FALSE, path |-> <<KTxt("zzz")>>] }

\* a nil value, and values
ValidValues == {Empty, ITxt("qux"), DocMap}

ValidOps ==
  { Operation(c, f.path, q.path, v,
              (IF f.nil THEN {"From"} ELSE {}) \cup (IF q.nil THEN {"Path"} ELSE {})) :
      c \in ValidCodes, f \in ValidPaths, q \in ValidPaths, v \in ValidValues }

ValidOptions == {NewOptions, Options(TRUE, 0, TRUE, TRUE)}

InitValid == InitNode({DocFoo, DocMap})

BeginValid ==
  /\ st = "idle"
  /\ \E op \in ValidOps, o \in ValidOptions : PatchBegin(<<op>>, o)

NextValid == BeginValid \/ PatchStep \/ PatchEnd

SpecValid == InitValid /\ [][NextValid]_vars

(***************************************************************************)
(* JSON Pointers.  A string is the sequence of its characters; TextOf      *)
(* gives the text a text-string key holds.                                 *)
(***************************************************************************)
PtrChars == {"/", "~", "0", "1", "-", "a"}

DigitChars == <<"0", "1", "2", "3", "4", "5", "6", "7", "8", "9">>

isDigit(c) == \E j \in DOMAIN DigitChars : DigitChars[j] = c

digitOf(c) == (CHOOSE j \in DOMAIN DigitChars : DigitChars[j] = c) - 1

RECURSIVE TextOf(_)
TextOf(s) == IF s = <<>> THEN "" ELSE Head(s) \o TextOf(Tail(s))

\* the concatenation of a sequence of strings
RECURSIVE Flat(_)
Flat(ss) == IF ss = <<>> THEN <<>> ELSE Head(ss) \o Flat(Tail(ss))

\* An encoder that escapes "/" and leaves "~" as it is.
rfc6901EncoderSlashOnly(s) ==
  Flat([j \in 1..Len(s) |-> IF s[j] = "/" THEN <<"~", "1">> ELSE <<s[j]>>])

\* strings.NewReplacer("/", "~1", "~", "~0").Replace(s)
rfc6901Encoder(s) ==
  Flat([j \in 1..Len(s) |->
          CASE s[j] = "/" -> <<"~", "1">>
            [] s[j] = "~" -> <<"~", "0">>
            [] OTHER -> <<s[j]>>])

\* strings.NewReplacer("~1", "/", "~0", "~").Replace(s): one scan from the
\* left, a replaced pair is not looked at again
RECURSIVE rfc6901Decoder(_)
rfc6901Decoder(s) ==
  IF s = <<>> THEN <<>>
  ELSE IF Len(s) >= 2 /\ s[1] = "~" /\ s[2] = "1"
  THEN <<"/">> \o rfc6901Decoder(SubSeq(s, 3, Len(s)))
  ELSE IF Len(s) >= 2 /\ s[1] = "~" /\ s[2] = "0"
  THEN <<"~">> \o rfc6901Decoder(SubSeq(s, 3, Len(s)))
  ELSE <<s[1]>> \o rfc6901Decoder(Tail(s))

\* strings.Split(s, "/")
RECURSIVE Split(_)
Split(s) ==
  IF \A j \in 1..Len(s) : s[j] # "/" THEN <<s>>
  ELSE With(CHOOSE j \in 1..Len(s) : s[j] = "/" /\ \A i \in 1..(j - 1) : s[i] # "/",
            LAMBDA j : <<SubSeq(s, 1, j - 1)>> \o Split(SubSeq(s, j + 1, Len(s))))

\* the value of a sequence of digits
RECURSIVE digitsValue(_)
digitsValue(ds) ==
  IF ds = <<>> THEN 0 ELSE 10 * digitsValue(SubSeq(ds, 1, Len(ds) - 1)) + digitOf(ds[Len(ds)])

\* the decimal digits of the largest int, 2^63 - 1, and of the magnitude of
\* the smallest, 2^63
MaxIntDigits ==
  <<"9", "2", "2", "3", "3", "7", "2", "0", "3", "6", "8", "5", "4", "7", "7",
    "5", "8", "0", "7">>

MinIntDigits ==
  <<"9", "2", "2", "3", "3", "7", "2", "0", "3", "6", "8", "5", "4", "7", "7",
    "5", "8", "0", "8">>

\* the digits without their leading zeros
RECURSIVE stripZeros(_)
stripZeros(ds) == IF Len(ds) > 1 /\ ds[1] = "0" THEN stripZeros(Tail(ds)) ELSE ds

\* the number the digits ds give is greater than the one the digits lim give
digitsAbove(ds, lim) ==
  With(stripZeros(ds), LAMBDA d :
    \/ Len(d) > Len(lim)
    \/ /\ Len(d) = Len(lim)
       /\ \E j \in 1..Len(d) :
            /\ \A i \in 1..(j - 1) : d[i] = lim[i]
            /\ digitOf(d[j]) > digitOf(lim[j]))

\* strconv.Atoi: an optional sign and at least one digit, nothing else, and
\* a value that int holds (ok is err == nil; a syntax error and a range
\* error alike give ok = FALSE)
Atoi(s) ==
  With(IF s # <<>> /\ s[1] \in {"-", "+"} THEN Tail(s) ELSE s, LAMBDA ds :
    IF ds = <<>> \/ \E j \in 1..Len(ds) : ~isDigit(ds[j])
    THEN [ok |-> FALSE, v |-> 0]
    ELSE IF digitsAbove(ds, IF s[1] = "-" THEN MinIntDigits ELSE MaxIntDigits)
    THEN [ok |-> FALSE, v |-> 0]
    ELSE [ok |-> TRUE,
          v |-> IF s[1] = "-" THEN -digitsValue(ds) ELSE digitsValue(ds)])

ErrInvalidPointer == "invalid JSON Pointer"

\* the key of one token: the integer key when the token starts with "-" or
\* a digit and Atoi takes it, the text key else
tokenKey(token) ==
  IF token # <<>> /\ (token[1] = "-" \/ isDigit(token[1])) /\ Atoi(token).ok
  THEN KInt(Atoi(token).v)
  ELSE KTxt(TextOf(token))

PathFromJSON(jsonpath) ==
  IF jsonpath = <<>> THEN [err |-> NoErr, path |-> <<>>]
  ELSE IF jsonpath[1] # "/" THEN [err |-> ErrInvalidPointer, path |-> <<>>]
  ELSE With(Split(Tail(jsonpath)), LAMBDA parts :
       [err |-> NoErr,
        path |-> seq([i \in 1..Len(parts) |-> tokenKey(rfc6901Decoder(parts[i]))])])

(***************************************************************************)
(* SpecPtr: PathFromJSON on the pointer made of one escaped key, and on    *)
(* any string.                                                             *)
(***************************************************************************)
\* the digits of 2^63 and of -(2^63 + 1), the integers nearest to zero that
\* int does not hold
PtrWide == {MinIntDigits, <<"-">> \o SubSeq(MinIntDigits, 1, 18) \o <<"9">>}

PtrKeys == SeqsUpTo(PtrChars, MaxKeyLen) \cup PtrWide

InitPtr == InitNode({DocFoo})

\* PathFromJSON("/" + rfc6901Encoder.Replace(k))
EscapedCall ==
  /\ st = "idle"
  /\ cin = NoCall
  /\ \E k \in PtrKeys :
       /\ cin' = [op |-> "Escaped", k |-> k, jsonpath |-> <<"/">> \o rfc6901Encoder(k)]
       /\ cout' = PathFromJSON(<<"/">> \o rfc6901Encoder(k))
  /\ UNCHANGED <<n, st, p, opts, pc, pd, bound, acc, err, base, hist, heap, hroot>>

PathFromJSONCall ==
  /\ st = "idle"
  /\ cin = NoCall
  /\ \E s \in SeqsUpTo(PtrChars, MaxKeyLen + 1) \cup {<<"/">> \o w : w \in PtrWide} :
       /\ cin' = [op |-> "PathFromJSON", k |-> <<>>, jsonpath |-> s]
       /\ cout' = PathFromJSON(s)
  /\ UNCHANGED <<n, st, p, opts, pc, pd, bound, acc, err, base, hist, heap, hroot>>

NextPtr == EscapedCall \/ PathFromJSONCall

SpecPtr == InitPtr /\ [][NextPtr]_vars

(***************************************************************************)
(* SpecPartial: one Patch call of one move, or of one add with             *)
(* EnsurePathExistsOnAdd, over the operations that fail after their first  *)
(* effect among others.                                                    *)
(***************************************************************************)
PartialDocs == EnsDocs \cup {DocCows, DocAry}

MovePaths ==
  { <<>>, <<KTxt("a")>>, <<KTxt("foo")>>, <<KTxt("foo"), KInt(0)>>,
    <<KTxt("foo"), KInt(1)>>, <<KTxt("foo"), KInt(4)>>, <<KTxt("foo"), minus>>,
    <<KTxt("foo"), KInt(-1)>>, <<KTxt("zzz"), KTxt("a")>>, <<KTxt("a"), KInt(0)>>,
    <<KInt(0)>>, <<KInt(1)>>, <<KInt(2)>>, <<KInt(1), KTxt("a")>> }

PartialOps ==
  {Add(q, ITxt("hello")) : q \in EnsPaths}
    \cup {Move(f, q) : f \in MovePaths, q \in MovePaths}

InitPartial == InitNode(PartialDocs)

BeginPartial ==
  /\ st = "idle"
  /\ \E op \in PartialOps, o \in EnsOptions : PatchBegin(<<op>>, o)

NextPartial == BeginPartial \/ PatchStep \/ PatchEnd

SpecPartial == InitPartial /\ [][NextPartial]_vars

(***************************************************************************)
(* SpecTree: Patch calls of operations of the six kinds on the Node kept   *)
(* as heap cells, a call after a failed call included.                     *)
(***************************************************************************)
TreeOps ==
  HeapCopies
    \cup { Move(Str("foo"), Str("zzz")), Move(Str("b"), <<KTxt("b"), KTxt("a")>>),
           Move(<<KTxt("foo"), KInt(0)>>, <<KTxt("foo"), KInt(1)>>),
           Move(Str("a"), <<KTxt("foo"), KInt(0)>>),
           Add(Str("zzz"), DocFoo), Add(<<KTxt("foo"), KInt(0)>>, ITxt("qux")),
           Replace(<<>>, DocMap), Replace(Str("foo"), ITxt("qux")),
           Remove(Str("foo")), Remove(<<KTxt("b"), KTxt("c")>>),
           Test(Str("a"), ITxt("x")), Test(<<KTxt("foo"), KInt(0)>>, ITxt("bar")) }

TreeDocs == {DocFoo, DocMap, DocNull}

InitTree == InitNode(TreeDocs)

BeginTree ==
  /\ st \in {"idle", "done", "failed"}
  /\ hist.used < MaxOps - 1
  /\ \E q \in SeqsUpTo(TreeOps, MaxOps - 1 - hist.used) \ {<<>>} :
       HeapBegin(q, NewOptions)

NextTree == BeginTree \/ HeapStep \/ HeapEnd

SpecTree == InitTree /\ [][NextTree]_vars

(***************************************************************************)
(* Properties.                                                             *)
(***************************************************************************)
\* Documents are compared as the library compares them: a parse reads an
\* undefined member as the nil pointer, which is written back as null, so
\* that a document read by an operation is the same up to its null forms.
\* An item with every null form in it (null, undefined, the absent value)
\* written as null: two values are structurally equal when these agree.
RECURSIVE Norm(_)
Norm(item) ==
  CASE isNull(item) -> INull
    [] item.ty = "map" -> IMap([k \in DOMAIN item.m |-> Norm(item.m[k])])
    [] item.ty = "ary" -> IAry(seq([j \in 1..Len(item.a) |-> Norm(item.a[j])]))
    [] OTHER -> item

ItemEq(a, b) == Norm(a) = Norm(b)

\* the loop state a call starts from
Start(b) == LoopState(b, 0, TRUE, b)

\* C1: Node.Patch applies the operations strictly left to right.  Inside a
\* call, after pc operations the working root, the accumulated copy size and
\* the binding of the root are exactly what applying p[1], ..., p[pc] in this
\* order to the root the call began with gives (a root rebinding by a replace
\* at the empty path included); nothing of p[pc+1], ... shows in them.
C1_LeftToRight ==
  st = "running" =>
    \A r \in loopFrom(Start(base), SubSeq(p, 1, pc), opts) :
      r.err = NoErr /\ r.pd = pd /\ r.acc = acc /\ r.bound = bound

\* two operations done, the first of them a replace at the empty path that
\* rebound the root, the second one applied to the new root
C1_Witness ==
  /\ st = "running"
  /\ pc = 2
  /\ p[1].Op = OpReplace
  /\ ~bound
  /\ \A r \in loopFrom(Start(base), SubSeq(p, 1, 1), opts) : pd # r.pd

\* C2: when Node.Patch fails at operation k, the Node holds exactly the
\* document the operations before k produced, also when these contain a
\* replace at the empty path.  Stated for failing operations that leave no
\* effect of their own (every one but move and add with
\* EnsurePathExistsOnAdd).
C2_PrefixKept ==
  ( /\ st = "failed"
    /\ base # NoCon
    /\ p[pc + 1].Op # OpMove
    /\ ~(p[pc + 1].Op = OpAdd /\ opts.EnsurePathExistsOnAdd) ) =>
    \A r \in loopFrom(Start(base), SubSeq(p, 1, pc), opts) :
      MarshalCBOR(n) = docOf(r.pd)

\* C3: no execution of Node.Patch reaches a run-time panic.
C3_NoPanic == st # "panicked"

\* C4: a patch of one replace at the empty path with value V on a container
\* document D leaves a document equal to V when V is a map or an array (of
\* either kind), and fails leaving D when V is a scalar.
C4_RootReplace ==
  ( /\ st \in {"done", "failed", "panicked"}
    /\ Len(p) = 1
    /\ p[1].Op = OpReplace
    /\ Len(p[1].Path) = 0 ) =>
    IF p[1].Value.ty \in {"map", "ary"}
    THEN st = "done" /\ MarshalCBOR(n) = p[1].Value
    ELSE st = "failed" /\ err = ErrImpossible /\ MarshalCBOR(n) = hist.orig.raw

\* C5: a Node keeps its patched state between Patch calls.  When every call
\* so far returned nil (all with the same options, no copy size limit), the
\* Node holds the document that one call with the concatenation of their
\* patches gives on the original Node, and that one call returns nil too.
C5_CallsCompose ==
  (st = "done" /\ hist.allok /\ hist.uni) =>
    \A w \in NodePatch(hist.orig, hist.log, hist.opts0) :
      w.err = NoErr /\ MarshalCBOR(w.n) = MarshalCBOR(n)

\* a second (or later) successful call, after an earlier call that changed
\* the document, itself changing it again
C5_Witness ==
  /\ st = "done"
  /\ hist.allok
  /\ hist.uni
  /\ Len(p) >= 1
  /\ Len(hist.log) > Len(p)
  /\ docOf(base) # hist.orig.raw
  /\ MarshalCBOR(n) # docOf(base)

\* C6: Node.Patch on a document whose root is no map and no array (empty,
\* null, a scalar) returns an error before executing any operation, whatever
\* the patch, and the document stays as it was.
C6_ContainerRootOnly ==
  hist.orig.raw.ty \notin {"map", "ary"} =>
    /\ st \in {"idle", "failed"}
    /\ st = "failed" => (err = ErrInvalid /\ pc = 0 /\ pd = NoCon)
    /\ MarshalCBOR(n) = hist.orig.raw

\* an empty patch refused on a scalar document, after a non-empty one
C6_Witness ==
  /\ hist.orig.raw.ty \notin {"map", "ary"}
  /\ st = "failed"
  /\ p = <<>>
  /\ Len(hist.log) > 0

\* The root container the add step of an operation starts from (for move,
\* the root after the source was removed) and the value the step inserts.
BeforeAddStep(b, op, options) ==
  IF op.Op = OpMove THEN Patch_remove(b, Remove(op.From), 0, options).pd ELSE b

\* For copy the value is the source as the walk to Path leaves it (the walk
\* parses the source in place when Path runs through it).
AddedValue(b, op, options) ==
  IF op.Op = OpAdd THEN MarshalCBOR(NewNode(op.Value))
  ELSE With(findObject(b, op.From, options), LAMBDA f :
       With(get(f.con, f.key, options), LAMBDA g :
       IF op.Op = OpCopy /\ g.held
       THEN With(findObject(f.top, op.Path, options), LAMBDA f2 :
            MarshalCBOR(childAt(conAt(f2.top, f.slots), g.slot)))
       ELSE MarshalCBOR(g.node)))

\* C7: add, and the add step of copy and move, on a map: after the
\* operation the final key holds the new value, whether or not the map had
\* the key; every other key of the map keeps its value, and the keys of the
\* map are the old ones and the final key (the size grows by at most one).
C7_MapAddOverwrites ==
  ( /\ st = "done"
    /\ Len(p) = 1
    /\ p[1].Op \in {OpAdd, OpMove, OpCopy}
    /\ Len(p[1].Path) > 0 ) =>
    \A f0 \in {findObject(BeforeAddStep(base, p[1], opts), p[1].Path, opts)} :
      \A f1 \in {findObject(conOf(n), p[1].Path, opts)} :
        (f0.found /\ f0.con.kind = eDoc) =>
          /\ f1.found /\ f1.con.kind = eDoc
          /\ DOMAIN f1.con.obj = DOMAIN f0.con.obj \cup {f0.key}
          /\ MarshalCBOR(f1.con.obj[f0.key]) = AddedValue(base, p[1], opts)
          /\ \A k \in DOMAIN f0.con.obj \ {f0.key} :
               MarshalCBOR(f1.con.obj[k]) = MarshalCBOR(f0.con.obj[k])

\* a copy onto a key the map already has, with another value, in a map that
\* has a second key
C7_Witness ==
  /\ st = "done"
  /\ Len(p) = 1
  /\ p[1].Op = OpCopy
  /\ Len(p[1].Path) > 0
  /\ \E f0 \in {findObject(base, p[1].Path, opts)} :
       /\ f0.found /\ f0.con.kind = eDoc
       /\ f0.key \in DOMAIN f0.con.obj
       /\ Cardinality(DOMAIN f0.con.obj) > 1
       /\ MarshalCBOR(f0.con.obj[f0.key]) # AddedValue(base, p[1], opts)

\* b is a with v inserted at position pos (from 0): the elements before pos
\* stay, those from pos on move right by one
InsertedAt(a, b, pos, v) ==
  /\ Len(b) = Len(a) + 1
  /\ \A j \in 1..Len(b) :
       b[j] = IF j <= pos THEN a[j] ELSE IF j = pos + 1 THEN v ELSE a[j - 1]

\* C8: add on an array of length L: an index 0 <= i <= L inserts at i and
\* shifts the elements from i on right by one; "-" appends; -n is accepted
\* only with SupportNegativeIndices and n <= L+1 and inserts at L+1-n;
\* every other key (an index beyond L, a negative one beyond L+1 or with
\* negative indices off, an integer that int cannot hold, a key that is no
\* integer) fails with the invalid-index error, and a failed add leaves
\* the array as it was.
C8_ArrayAdd ==
  cin.op = "add" =>
    LET a == cin.con.ary
        L == Len(a)
        k == cin.key
        ok(pos) == cout.err = NoErr /\ InsertedAt(a, cout.con.ary, pos, cin.val)
    IN CASE k = minus -> ok(L)
         [] k.t = "int" /\ 0 <= k.i /\ k.i <= L -> ok(k.i)
         [] k.t = "int" /\ k.i < 0 /\ cin.options.SupportNegativeIndices
              /\ -k.i <= L + 1 -> ok(L + 1 + k.i)
         [] OTHER -> cout.err = ErrInvalidIndex /\ cout.con = cin.con

\* the call of scenario S2 has returned nil
S2Done ==
  /\ st = "done"
  /\ hist.orig = NewNode(DocFoo)
  /\ hist.log = <<AddFooNeg1>>
  /\ hist.uni
  /\ hist.opts0 = NewOptions

\* C9 (amended), scenario S2: add /foo/-1 "qux" on {"foo":["bar","baz"]}
\* with default options yields {"foo":["bar","baz","qux"]}.
C9_S2 ==
  S2Done => MarshalCBOR(n) = Foo(<<ITxt("bar"), ITxt("baz"), ITxt("qux")>>)

\* C9 as stated: the result is {"foo":["bar","qux","baz"]}.
C9_S2_AsStated ==
  S2Done => MarshalCBOR(n) = Foo(<<ITxt("bar"), ITxt("qux"), ITxt("baz")>>)

\* the call of S2 has returned and the document is no longer the input
C9_Witness == S2Done /\ Len(p) = 1 /\ MarshalCBOR(n) # hist.orig.raw

\* b is a without the element at position pos (from 0)
RemovedAt(a, b, pos) ==
  /\ Len(b) = Len(a) - 1
  /\ \A j \in 1..Len(b) : b[j] = IF j <= pos THEN a[j] ELSE a[j + 1]

\* C10: remove, get and set on an array of length L accept an index
\* 0 <= i <= L-1, or -n with SupportNegativeIndices and n <= L, which
\* addresses position L-n; remove deletes that element and shifts the
\* following ones left; every other index key (an integer or "-") fails with
\* the invalid-index error and leaves the array as it was (for remove:
\* without AllowMissingPathOnRemove).
C10_ArrayIndex ==
  (cin.op \in {"remove", "get", "set"} /\ isIndex(cin.key)) =>
    LET a == cin.con.ary
        L == Len(a)
        k == cin.key
        at(pos) ==
          CASE cin.op = "remove" ->
                 cout.err = NoErr /\ RemovedAt(a, cout.con.ary, pos)
            [] cin.op = "get" ->
                 /\ cout.err = NoErr
                 /\ cout.node = IF a[pos + 1] = Nil THEN NewNode(Empty)
                                ELSE a[pos + 1]
            [] OTHER ->
                 /\ cout.err = NoErr
                 /\ cout.con.ary = [a EXCEPT ![pos + 1] = cin.val]
        fails ==
          \/ cin.op = "remove" /\ cin.options.AllowMissingPathOnRemove
          \/ /\ cout.err = ErrInvalidIndex
             /\ cin.op \in {"remove", "set"} => cout.con = cin.con
    IN CASE k.t = "int" /\ 0 <= k.i /\ k.i <= L - 1 -> at(k.i)
         [] k.t = "int" /\ k.i < 0 /\ cin.options.SupportNegativeIndices
              /\ -k.i <= L -> at(L + k.i)
         [] OTHER -> fails

\* The path an operation reads, replaces or deletes at: from for move and
\* copy, path for remove, replace and test.
ReadPath(op) == IF op.Op \in {OpMove, OpCopy} THEN op.From ELSE op.Path

\* the final key of path is "-" and the parent of path is an array of b
MinusAtArray(b, path, options) ==
  /\ Len(path) > 0
  /\ isMinus(path[Len(path)])
  /\ \E f \in {findObject(b, path, options)} : f.found /\ f.con.kind = eAry

\* C11: the key "-" is legal only for add.  A remove, replace, test, move
\* or copy whose key at an array position (of path, or of from for move and
\* copy) is "-" fails with the invalid-index error and leaves the document
\* as it was, whatever the length of the array.
C11_MinusOnlyForAdd ==
  ( /\ st \in {"done", "failed", "panicked"}
    /\ Len(p) = 1
    /\ base # NoCon
    /\ p[1].Op \in {OpRemove, OpReplace, OpTest, OpMove, OpCopy}
    /\ MinusAtArray(base, ReadPath(p[1]), opts) ) =>
    /\ st = "failed"
    /\ err = ErrInvalidIndex
    /\ MarshalCBOR(n) = docOf(base)

(***************************************************************************)
(* Locations of a document, on data items: the reference the claims about  *)
(* single operations are stated against.                                   *)
(***************************************************************************)
\* item has a child at key k: a key of the map, or an index of the array
\* (0 .. L-1, or -1 .. -L with negative indices supported)
ItemHas(item, k, sni) ==
  CASE item.ty = "map" -> k \in DOMAIN item.m
    [] item.ty = "ary" ->
         /\ k.t = "int"
         /\ \/ 0 <= k.i /\ k.i < Len(item.a)
            \/ sni /\ k.i < 0 /\ -k.i <= Len(item.a)
    [] OTHER -> FALSE

ItemPos(item, k) == IF k.i < 0 THEN Len(item.a) + k.i + 1 ELSE k.i + 1

ItemSub(item, k) ==
  IF item.ty = "map" THEN item.m[k] ELSE item.a[ItemPos(item, k)]

RECURSIVE ItemResolves(_, _, _)
ItemResolves(item, path, sni) ==
  \/ path = <<>>
  \/ /\ ItemHas(item, Head(path), sni)
     /\ ItemResolves(ItemSub(item, Head(path)), Tail(path), sni)

\* the value at a path that resolves
RECURSIVE ItemAt(_, _)
ItemAt(item, path) ==
  IF path = <<>> THEN item ELSE ItemAt(ItemSub(item, Head(path)), Tail(path))

\* item with the value at a path that resolves replaced by v
RECURSIVE ItemReplaced(_, _, _)
ItemReplaced(item, path, v) ==
  IF path = <<>> THEN v
  ELSE IF item.ty = "map"
  THEN [item EXCEPT !.m[Head(path)] = ItemReplaced(@, Tail(path), v)]
  ELSE [item EXCEPT !.a[ItemPos(item, Head(path))] = ItemReplaced(@, Tail(path), v)]

NoMinus(path) == \A j \in 1..Len(path) : ~isMinus(path[j])

\* a call of the single operation kind on a container root has returned
Returned(kind) ==
  /\ st \in {"done", "failed", "panicked"}
  /\ Len(p) = 1
  /\ base # NoCon
  /\ p[1].Op = kind

\* C12: replace at a non-empty path never creates a location.  When the
\* parent does not resolve, the final map key is absent or the final array
\* index is out of range, the call fails and the document is structurally
\* equal to the one before; otherwise the call succeeds and the document is
\* the old one with exactly the value at that location replaced (so no
\* container changes its size).  Stated for paths without the key "-".
C12_ReplaceNeverCreates ==
  ( /\ Returned(OpReplace)
    /\ Len(p[1].Path) > 0
    /\ NoMinus(p[1].Path) ) =>
    \A d \in {docOf(base)} :
      IF ItemResolves(d, p[1].Path, opts.SupportNegativeIndices)
      THEN /\ st = "done"
           /\ ItemEq(MarshalCBOR(n),
                     ItemReplaced(d, p[1].Path, MarshalCBOR(NewNode(p[1].Value))))
      ELSE /\ st = "failed"
           /\ ItemEq(MarshalCBOR(n), d)

\* a replace at index L of an array of length L, and one at a key the map
\* does not have, have failed
C12_Witness ==
  /\ Returned(OpReplace)
  /\ st = "failed"
  /\ \/ /\ p[1].Path = <<KInt(2)>>
        /\ base.kind = eAry /\ Len(base.ary) = 2
     \/ /\ p[1].Path = <<KTxt("zzz")>>
        /\ base.kind = eDoc /\ KTxt("zzz") \notin DOMAIN base.obj

Front(path) == SubSeq(path, 1, Len(path) - 1)

Last(path) == path[Len(path)]

\* item without the child at a path that resolves: the key leaves the map,
\* the element leaves the array and the following ones move left
ItemRemoved(item, path) ==
  With(ItemAt(item, Front(path)), LAMBDA par :
    ItemReplaced(item, Front(path),
      IF par.ty = "map"
      THEN IMap([k \in DOMAIN par.m \ {Last(path)} |-> par.m[k]])
      ELSE With(ItemPos(par, Last(path)), LAMBDA j :
           IAry(SubSeq(par.a, 1, j - 1) \o SubSeq(par.a, j + 1, Len(par.a))))))

\* the position (from 1) an add with key k inserts at in an array of
\* length L, 0 when the key is refused
AddPos(k, L, sni) ==
  IF isMinus(k) THEN L + 1
  ELSE IF k.t # "int" THEN 0
  ELSE IF 0 <= k.i /\ k.i <= L THEN k.i + 1
  ELSE IF k.i < 0 /\ sni /\ -k.i <= L + 1 THEN L + k.i + 2
  ELSE 0

\* an add at path applies to item: the parent resolves to a map, or to an
\* array that accepts the final key
ItemAddable(item, path, sni) ==
  /\ Len(path) > 0
  /\ ItemResolves(item, Front(path), sni)
  /\ \E par \in {ItemAt(item, Front(path))} :
       \/ par.ty = "map"
       \/ par.ty = "ary" /\ AddPos(Last(path), Len(par.a), sni) > 0

ItemAdded(item, path, v, sni) ==
  With(ItemAt(item, Front(path)), LAMBDA par :
    ItemReplaced(item, Front(path),
      IF par.ty = "map"
      THEN IMap([k \in DOMAIN par.m \cup {Last(path)} |->
                   IF k = Last(path) THEN v ELSE par.m[k]])
      ELSE With(AddPos(Last(path), Len(par.a), sni), LAMBDA j :
           IAry(SubSeq(par.a, 1, j - 1) \o <<v>> \o SubSeq(par.a, j, Len(par.a))))))

Cows(a) == docOf(base) = DocCows /\ p[1].From = <<KTxt("foo"), KInt(1)>>
           /\ p[1].Path = <<KTxt("foo"), KInt(a)>>

\* C13: move is remove-then-add.  The value at from is read and removed
\* first; path is then resolved and its index checked against the document
\* as it is after the removal, and the value is added there.  A move whose
\* from does not resolve fails and leaves the document as it was.  So moving
\* element 1 of the four-element array to index 3 succeeds and places it
\* last, and moving it to index 4 fails.  Stated for from without "-";
\* the documents are compared structurally.
C13_MoveRemoveThenAdd ==
  (Returned(OpMove) /\ NoMinus(p[1].From)) =>
    \A d \in {docOf(base)} :
      /\ IF Len(p[1].From) > 0 /\ ItemResolves(d, p[1].From, opts.SupportNegativeIndices)
         THEN \A d1 \in {ItemRemoved(d, p[1].From)} :
                IF ItemAddable(d1, p[1].Path, opts.SupportNegativeIndices)
                THEN /\ st = "done"
                     /\ ItemEq(MarshalCBOR(n),
                               ItemAdded(d1, p[1].Path, ItemAt(d, p[1].From),
                                         opts.SupportNegativeIndices))
                ELSE st = "failed"
         ELSE st = "failed" /\ ItemEq(MarshalCBOR(n), d)
      /\ Cows(3) =>
           /\ st = "done"
           /\ MarshalCBOR(n) =
                Foo(<<ITxt("all"), ITxt("cows"), ITxt("eat"), ITxt("grass")>>)
      /\ Cows(4) => st = "failed"

\* element 1 of the four-element array was moved to index 3
C13_Witness == Returned(OpMove) /\ Cows(3) /\ st = "done"

\* path x lies at or under path y
Under(x, y) == Len(y) <= Len(x) /\ SubSeq(x, 1, Len(y)) = y

Touches(x, y) == Under(x, y) \/ Under(y, x)

\* the document on the heap: under the pointer of the running call, or
\* under the Node between calls
HeapDoc == hMarshalCBOR(heap, IF hroot = Nil THEN Root ELSE hroot)

\* the operations of all calls that have completed so far
OpsDone == IF st = "running" THEN hist.used - Len(p) + pc ELSE hist.used

\* the first operation was a copy that completed, and every operation
\* since completed too
CopyFirst ==
  /\ st \in {"running", "done"}
  /\ hist.allok
  /\ OpsDone >= 1
  /\ hist.log[1].Op = OpCopy

\* C14: copy is a deep copy.  After a copy from s to d completed, d holds
\* the value s had before the copy (also when d lies inside s), and keeps
\* it through every later operation, of the same call or a later one, that
\* does not touch d, whatever it changes under s; and s keeps its value
\* through every later operation that does not touch s, whatever it changes
\* under d (for d outside s).
C14_CopyIsDeep ==
  CopyFirst =>
    \A s \in {hist.log[1].From}, d \in {hist.log[1].Path} :
      \A v \in {ItemAt(hist.orig.raw, s)}, cur \in {HeapDoc} :
        /\ (\A j \in 2..OpsDone : ~Touches(hist.log[j].Path, d)) =>
             ItemResolves(cur, d, TRUE) /\ ItemAt(cur, d) = v
        /\ ( /\ ~Touches(s, d)
             /\ \A j \in 2..OpsDone : ~Touches(hist.log[j].Path, s) ) =>
             ItemResolves(cur, s, TRUE) /\ ItemAt(cur, s) = v

\* after the copy an operation changed the value at s, another call one
\* under d
C14_Witness ==
  /\ CopyFirst
  /\ OpsDone >= 2
  /\ Under(hist.log[2].Path, hist.log[1].From)
  /\ ~Touches(hist.log[2].Path, hist.log[1].Path)
  /\ Under(hist.log[1].Path, hist.log[1].From)
  /\ ItemAt(HeapDoc, hist.log[1].From) # ItemAt(hist.orig.raw, hist.log[1].From)
  /\ ItemAt(HeapDoc, hist.log[1].Path) = ItemAt(hist.orig.raw, hist.log[1].From)

HeapAgrees ==
  (st = "done" /\ hist.used = Len(p)) =>
    \A w \in NodePatch(hist.orig, p, opts) :
      hMarshalCBOR(heap, Root) = MarshalCBOR(w.n)

\* the step the loop is about to take is a copy whose from resolves and
\* whose path accepts an add
CopyStep ==
  /\ st = "running"
  /\ pc < Len(p)
  /\ p[pc + 1].Op = OpCopy
  /\ NoMinus(p[pc + 1].From)
  /\ Len(p[pc + 1].From) > 0
  /\ ItemResolves(docOf(pd), p[pc + 1].From, opts.SupportNegativeIndices)
  /\ ItemAddable(docOf(pd), p[pc + 1].Path, opts.SupportNegativeIndices)

\* C15: the sizes in bytes of the values copied in one Patch call are
\* summed, from zero at every call.  A copy fails with the copy-size error
\* exactly when AccumulatedCopySizeLimit > 0 and the sum including this
\* copy is greater than the limit, and then inserts nothing; otherwise the
\* copy inserts the value (a total equal to the limit passes, and with
\* limit 0 no copy fails for its size).
C15_CopySize ==
  [][ /\ (st # "running" /\ st' = "running") => acc' = 0
      /\ CopyStep =>
           \A d \in {docOf(pd)}, o \in {p[pc + 1]}, l \in {opts.AccumulatedCopySizeLimit} :
             \A v \in {ItemAt(d, o.From)} :
               /\ acc' = acc + Size(v)
               /\ IF l > 0 /\ acc + Size(v) > l
                  THEN st' = "failed" /\ err' = ErrCopySize /\ docOf(pd') = d
                  ELSE /\ st' = "running" /\ pc' = pc + 1
                       /\ docOf(pd') = ItemAdded(d, o.Path, v, opts.SupportNegativeIndices)
    ]_vars

\* two copies of the same call have passed and their sizes add up to the
\* limit exactly
C15_Witness ==
  /\ st = "running"
  /\ pc = 2
  /\ p[1].Op = OpCopy /\ p[2].Op = OpCopy
  /\ opts.AccumulatedCopySizeLimit > 0
  /\ acc = opts.AccumulatedCopySizeLimit

\* the call of S5 on the document with the string s under limit l has
\* returned
S5Returned(s, l) ==
  /\ st \in {"done", "failed", "panicked"}
  /\ hist.orig = NewNode(DocA(s))
  /\ hist.log = <<CopyLast, CopyLast>>
  /\ Len(p) = 2
  /\ opts.AccumulatedCopySizeLimit = l

S5Four(s) ==
  /\ st = "done"
  /\ MarshalCBOR(n) = Foo(<<ITxt("A"), ITxt(s), ITxt(s), ITxt(s)>>)

S5SecondFails ==
  /\ st = "failed" /\ err = ErrCopySize /\ pc = 1
  /\ acc > opts.AccumulatedCopySizeLimit

\* C16: scenario S5.  On { "foo": [ "A", <48 letters A> ] } the patch of
\* two copies from /foo/1 to /foo/- succeeds also with
\* AccumulatedCopySizeLimit = 100, the 100 bytes copied not being more than
\* the limit, as with limit 0; the array then has four entries.  With 49
\* letters (102 bytes) and limit 100 the second copy fails with the
\* copy-size error.
C16_S5 ==
  /\ S5Returned("A48", 100) => S5Four("A48") /\ acc = 100
  /\ S5Returned("A48", 0) => S5Four("A48")
  /\ S5Returned("A49", 100) => S5SecondFails

\* C16 as stated: with limit 100 the second copy of S5 fails.
C16_S5_AsStated ==
  /\ S5Returned("A48", 100) => S5SecondFails
  /\ S5Returned("A48", 0) => S5Four("A48")

C16_Witness == S5Returned("A48", 100) /\ st = "done"

\* the parent of path resolves to a container of item
ParentResolves(item, path, sni) ==
  /\ ItemResolves(item, Front(path), sni)
  /\ ItemAt(item, Front(path)).ty \in {"map", "ary"}

\* C17: test at a non-empty path whose parent resolves succeeds iff the
\* actual and the expected value are both null or are structurally equal,
\* a final key missing from a map counting as null, an absent expected
\* value too; it fails when the parent does not resolve (and when the final
\* index is none of the array).  Test at the empty path succeeds iff the
\* whole document equals the expected value.  Stated for paths without "-".
C17_Test ==
  (Returned(OpTest) /\ NoMinus(p[1].Path)) =>
    \A d \in {docOf(base)}, e \in {p[1].Value}, sni \in {opts.SupportNegativeIndices} :
      /\ st \in {"done", "failed"}
      /\ IF Len(p[1].Path) = 0 THEN st = "done" <=> ItemEq(d, e)
         ELSE IF ~ParentResolves(d, p[1].Path, sni) THEN st = "failed"
         ELSE \A par \in {ItemAt(d, Front(p[1].Path))}, k \in {Last(p[1].Path)} :
                IF ItemHas(par, k, sni)
                THEN st = "done" <=> ItemEq(ItemSub(par, k), e)
                ELSE IF par.ty = "map" THEN st = "done" <=> isNull(e)
                ELSE st = "failed"

\* a test of a key the map does not have against null has succeeded
C17_Witness ==
  /\ Returned(OpTest)
  /\ st = "done"
  /\ p[1].Path = <<KTxt("zzz")>>
  /\ isNull(p[1].Value)
  /\ base.kind = eDoc /\ KTxt("zzz") \notin DOMAIN base.obj

\* the test of the round trip has returned
TestedBack ==
  /\ cin # NoCall
  /\ cin.op = "GetValue"
  /\ Len(p) = 1
  /\ st \in {"done", "failed", "panicked"}

\* C18: test round trip.  When GetValue(D, p) returns bytes v, the patch of
\* the single operation test(p, v) succeeds on D; when v is null, so does
\* the test with the absent expected value.
C18_TestRoundTrip == TestedBack => st = "done" /\ err = NoErr

\* round trips of a null value with the absent expected value, and of an
\* array that holds a null element
C18_Witness ==
  /\ TestedBack
  /\ st = "done"
  /\ \/ p[1].Value = Empty
     \/ p[1].Value = IAry(<<ITxt("bar"), INull>>)

\* C20: GetValue with the empty path returns the root document
\* re-serialized; with a non-empty path it returns the value at the path
\* (null for a key present with a null value) and fails with the
\* missing-value error when the parent or the final key does not exist.
C20_GetValue ==
  (cin # NoCall /\ cin.op = "GetValue") =>
    \A d \in {MarshalCBOR(cin.n)} :
      IF ItemResolves(d, cin.path, cin.options.SupportNegativeIndices)
      THEN cout.err = NoErr /\ ItemEq(cout.value, ItemAt(d, cin.path))
      ELSE cout.err = ErrMissing

NullForm(x) == x = Nil \/ (x.which \in {eRaw, eOther} /\ isNull(x.raw))

\* C19: Node.Equal is an equivalence relation over Nodes in any state of
\* materialization: Equal(a, a) holds, Equal(a, b) = Equal(b, a), and
\* Equal(a, b) and Equal(b, c) give Equal(a, c).  The null forms (nil, the
\* empty bytes, null, undefined) are equal to each other and to nothing
\* else, and two Nodes are equal exactly when the documents they hold are
\* the same up to the null forms in them (so that the order of the elements
\* of an array counts and the state of materialization does not).
C19_EqualEquivalence ==
  (cin # NoCall /\ cin.op = "Equal") =>
    /\ cout.aa
    /\ cout.ab = cout.ba
    /\ (cout.ab /\ cout.bc) => cout.ac
    /\ NullForm(cin.a) => (cout.ab <=> NullForm(cin.b))
    /\ cout.ab <=> ItemEq(MarshalCBOR(cin.a), MarshalCBOR(cin.b))

\* a parsed map and the raw map of one key more: unequal both ways; and a
\* raw array equal to its parsed form
C19_Witness ==
  /\ cin # NoCall /\ cin.op = "Equal"
  /\ cin.a # Nil /\ cin.b # Nil /\ cin.c # Nil
  /\ cin.a.which = eDoc /\ cin.b.which = eRaw /\ cin.b.raw.ty = "map"
  /\ DOMAIN cin.a.doc # DOMAIN cin.b.raw.m
  /\ ~cout.ab /\ ~cout.ba
  /\ cin.c.which = eAry /\ cout.bc = FALSE

\* a FindChildren call has returned
Found == cin # NoCall /\ cin.op = "FindChildren"

\* The assertion rule on data items: sub has at least one key and resolves
\* from item, and the value there equals the expected one up to the null
\* forms (a key the container does not have is a missing step).
ItemAsserts(item, sub, expected, sni) ==
  /\ Len(sub) > 0
  /\ ItemResolves(item, sub, sni)
  /\ ItemEq(ItemAt(item, sub), expected)

\* C21: FindChildren is sound.  For every document D and predicate list,
\* every returned pair (p, v) has GetValue(D, p) structurally equal to v,
\* a match at the root (the empty path) included, and every predicate holds
\* under the assertion rule at the node p addresses.
C21_FindSoundness ==
  (Found /\ hist.used = 0) =>
    \A j \in 1..Len(cout.result) :
      \A r \in {cout.result[j]}, sni \in {cin.options.SupportNegativeIndices} :
        /\ \E g \in {GetValue(cin.n, r.Path, cin.options)} :
             g.err = NoErr /\ ItemEq(g.value, r.Value)
        /\ ItemResolves(cin.n.raw, r.Path, sni)
        /\ \A t \in 1..Len(cin.tests) :
             ItemAsserts(ItemAt(cin.n.raw, r.Path), cin.tests[t].Path,
                         cin.tests[t].Value, sni)

\* the paths of the containers of a document: the root, and every map or
\* array that is a map value or an array element
RECURSIVE ContainerPaths(_, _)
ContainerPaths(item, here) ==
  CASE item.ty = "map" ->
         {here} \cup UNION {ContainerPaths(item.m[k], Append(here, k)) : k \in DOMAIN item.m}
    [] item.ty = "ary" ->
         {here} \cup UNION {ContainerPaths(item.a[j], Append(here, KInt(j - 1))) :
                              j \in 1..Len(item.a)}
    [] OTHER -> {}

\* the length of the longest common prefix of two paths
RECURSIVE Lcp(_, _)
Lcp(a, b) ==
  IF a = <<>> \/ b = <<>> \/ Head(a) # Head(b) THEN 0 ELSE 1 + Lcp(Tail(a), Tail(b))

\* a comes before b in every pre-order of document d that visits array
\* elements by ascending index (maps in any order)
Before(d, a, b) ==
  /\ a # b
  /\ ~Under(a, b)
  /\ \A m \in {Lcp(a, b)} :
       (m < Len(a) /\ ItemAt(d, SubSeq(a, 1, m)).ty = "ary") => a[m + 1].i < b[m + 1].i

\* all predicates of the list hold at the node of d at path q
AllHold(d, q, tests, sni) ==
  /\ Len(tests) > 0
  /\ \A t \in 1..Len(tests) :
       ItemAsserts(ItemAt(d, q), tests[t].Path, tests[t].Value, sni)

\* C22: FindChildren returns exactly the containers of the document (the
\* root, every map or array that is a map value or an array element) at
\* which all predicates hold, each once, in pre-order with array elements
\* by ascending index and every subtree contiguous; so later predicates only
\* filter, scalars and nulls are never returned, and the empty predicate
\* list returns nothing.
C22_FindExact ==
  Found =>
    \A d \in {MarshalCBOR(cin.n)}, res \in {cout.result} :
      /\ {res[j].Path : j \in 1..Len(res)} =
           {q \in ContainerPaths(d, <<>>) :
              AllHold(d, q, cin.tests, cin.options.SupportNegativeIndices)}
      /\ \A i, j \in 1..Len(res) : i < j => Before(d, res[i].Path, res[j].Path)
      /\ \A i, j, k \in 1..Len(res) :
           (i < j /\ j < k) =>
             Lcp(res[i].Path, res[k].Path) <= Lcp(res[i].Path, res[j].Path)

\* of the three containers the first predicate holds at, the second left
\* two, the two values of a map, reported with key "b" before key "a"
C22_Witness ==
  /\ Found
  /\ Len(cin.tests) = 2
  /\ Len(cout.result) = 2
  /\ cout.result[1].Path = <<KTxt("b")>>
  /\ cout.result[2].Path = <<KTxt("a")>>
  /\ Cardinality({q \in ContainerPaths(MarshalCBOR(cin.n), <<>>) :
                    AllHold(MarshalCBOR(cin.n), q, SubSeq(cin.tests, 1, 1), TRUE)}) = 3

\* C27: FindChildren reports the current content of each matching node.
\* On a Node changed by successful Patch calls, the value returned for a
\* matching node is structurally equal to what the document holds at its
\* path after the patch (what GetValue and MarshalCBOR give there), never
\* the bytes the node held before.
C27_FindCurrent ==
  (Found /\ hist.used > 0 /\ hist.allok /\ st = "done") =>
    \A d \in {MarshalCBOR(cin.n)}, j \in 1..Len(cout.result) :
      /\ ItemResolves(d, cout.result[j].Path, cin.options.SupportNegativeIndices)
      /\ ItemEq(cout.result[j].Value, ItemAt(d, cout.result[j].Path))

\* n nulls
Nulls(k) == seq([j \in 1..k |-> INull])

\* the container made for a missing key that the key nxt follows: an empty
\* map, or an array of n nulls when nxt is the index n >= 0 and of no
\* element when nxt is "-" or a negative index
ItemFresh(nxt) ==
  IF isMinus(nxt) \/ nxt.t = "int"
  THEN IAry(Nulls(IF nxt.t = "int" /\ nxt.i > 0 THEN nxt.i ELSE 0))
  ELSE rawCBORMap

\* item after an add of v at path that creates what is missing on the way:
\* an existing child is descended into; a key missing from a map gets the
\* fresh container; an index beyond the end of an array gets it after the
\* array was filled with nulls up to the index, any other key of an array
\* where add inserts; the last key is added as by a plain add
RECURSIVE ItemEnsuredAdd(_, _, _, _)
ItemEnsuredAdd(item, path, v, sni) ==
  IF item.ty \notin {"map", "ary"} THEN item
  ELSE IF Len(path) = 1
  THEN IF ItemAddable(item, path, sni) THEN ItemAdded(item, path, v, sni) ELSE item
  ELSE IF ItemHas(item, path[1], sni)
  THEN ItemReplaced(item, <<path[1]>>,
                    ItemEnsuredAdd(ItemSub(item, path[1]), Tail(path), v, sni))
  ELSE With(ItemEnsuredAdd(ItemFresh(path[2]), Tail(path), v, sni), LAMBDA sub :
       IF item.ty = "map"
       THEN IMap([k \in DOMAIN item.m \cup {path[1]} |->
                    IF k = path[1] THEN sub ELSE item.m[k]])
       ELSE IF path[1].t = "int" /\ path[1].i > Len(item.a)
       THEN IAry(item.a \o Nulls(path[1].i - Len(item.a)) \o <<sub>>)
       ELSE With(AddPos(path[1], Len(item.a), sni), LAMBDA j :
            IF j = 0 THEN item
            ELSE IAry(SubSeq(item.a, 1, j - 1) \o <<sub>>
                        \o SubSeq(item.a, j, Len(item.a)))))

\* C23: an add with EnsurePathExistsOnAdd that succeeds leaves the document
\* the old one with every missing intermediate container created (an empty
\* map before a key that is no index, an array of n nulls before the index
\* n >= 0, an empty array before "-" or -1; an existing array filled with
\* nulls up to position n-1 when the intermediate index n is beyond its
\* end) and the value added at the final key: all that was in the document
\* is still there, and at a path without "-" the value is readable.
\* Stated for paths that have the key "-" at most as their final key.
C23_EnsurePath ==
  ( /\ Returned(OpAdd)
    /\ opts.EnsurePathExistsOnAdd
    /\ st = "done"
    /\ Len(p[1].Path) > 0
    /\ NoMinus(Front(p[1].Path)) ) =>
    \A d \in {docOf(base)}, v \in {MarshalCBOR(NewNode(p[1].Value))},
       after \in {MarshalCBOR(n)} :
      /\ ItemEq(after, ItemEnsuredAdd(d, p[1].Path, v, opts.SupportNegativeIndices))
      /\ NoMinus(p[1].Path) =>
           /\ ItemResolves(after, p[1].Path, opts.SupportNegativeIndices)
           /\ ItemAt(after, p[1].Path) = v

\* S4: add /a/b/3 "hello" to {} has given { "a": { "b": [ null, null, null,
\* "hello" ] } }
C23_Witness ==
  /\ Returned(OpAdd)
  /\ st = "done"
  /\ docOf(base) = rawCBORMap
  /\ p[1].Path = <<KTxt("a"), KTxt("b"), KInt(3)>>
  /\ MarshalCBOR(n) =
       MapOf({<<KTxt("a"),
               MapOf({<<KTxt("b"), IAry(<<INull, INull, INull, ITxt("hello")>>)>>})>>})

\* A remove at path finds nothing to remove in item: the parent of the path
\* resolves to no container, or to a map without the final key, or to an
\* array that the final index is out of range of.  outOfRange(k, L) says
\* when the index k is out of range of an array of length L.
RemoveMisses(item, path, sni, outOfRange(_, _)) ==
  \/ ~ParentResolves(item, path, sni)
  \/ /\ ParentResolves(item, path, sni)
     /\ \E par \in {ItemAt(item, Front(path))} :
          \/ par.ty = "map" /\ Last(path) \notin DOMAIN par.m
          \/ par.ty = "ary" /\ Last(path).t \in {"int", "wide"}
               /\ outOfRange(Last(path), Len(par.a))

RemoveNoOp(outOfRange(_, _)) ==
  ( /\ Returned(OpRemove)
    /\ Len(p[1].Path) > 0
    /\ RemoveMisses(docOf(base), p[1].Path, opts.SupportNegativeIndices, outOfRange) ) =>
    IF opts.AllowMissingPathOnRemove
    THEN st = "done" /\ ItemEq(MarshalCBOR(n), docOf(base))
    ELSE st = "failed"

\* A remove whose parent resolves to an array and whose final key is a
\* negative index while negative indices are not supported, or an integer
\* that int cannot hold, fails, with the option or without, and leaves the
\* document structurally equal to what it was.
RemoveRefused ==
  ( /\ Returned(OpRemove)
    /\ Len(p[1].Path) > 0
    /\ ParentResolves(docOf(base), p[1].Path, opts.SupportNegativeIndices)
    /\ ItemAt(docOf(base), Front(p[1].Path)).ty = "ary"
    /\ \/ Last(p[1].Path).t = "wide"
       \/ /\ Last(p[1].Path).t = "int"
          /\ Last(p[1].Path).i < 0
          /\ ~opts.SupportNegativeIndices ) =>
    /\ st = "failed"
    /\ ItemEq(MarshalCBOR(n), docOf(base))

\* C24: with AllowMissingPathOnRemove a remove whose parent path does not
\* resolve, whose final map key is absent, or whose final array index is
\* one that int holds and is at or beyond the length of the array or, with
\* negative indices supported, below minus the length, succeeds and leaves
\* the whole document structurally equal to what it was; without the
\* option the same remove fails.  A negative final index with negative
\* indices not supported and an integer final index that int cannot hold
\* fail with the option and without it.
C24_RemoveMissing ==
  /\ RemoveNoOp(LAMBDA k, L :
       /\ k.t = "int"
       /\ k.i >= L \/ (opts.SupportNegativeIndices /\ k.i < -L))
  /\ RemoveRefused

\* C24 as stated: every index that names no element of the array, a
\* negative one included, is out of range.
C24_RemoveMissing_AsStated ==
  RemoveNoOp(LAMBDA k, L :
    \/ k.t = "wide"
    \/ /\ ~(0 <= k.i /\ k.i < L)
       /\ ~(opts.SupportNegativeIndices /\ k.i < 0 /\ -k.i <= L))

\* with the option set, remove /10 and remove /-10 of an array root and a
\* remove below a missing key have succeeded
C24_Witness ==
  /\ Returned(OpRemove)
  /\ st = "done"
  /\ opts.AllowMissingPathOnRemove
  /\ MarshalCBOR(n) = docOf(base)
  /\ \/ base.kind = eAry /\ p[1].Path \in {<<KInt(10)>>}
     \/ base.kind = eAry /\ p[1].Path = <<KInt(-10)>> /\ opts.SupportNegativeIndices
     \/ base.kind = eDoc /\ p[1].Path = <<KTxt("zzz"), KTxt("a"), KTxt("b")>>

\* The per-operation field table: from is absent for add, remove, replace
\* and test and required for move and copy; value is required for add and
\* replace, absent for remove, move and copy, optional for test; path is
\* required for every operation.
TableValid(o) ==
  LET from == "From" \notin o.nils
      path == "Path" \notin o.nils
      value == o.Value # Empty
  IN CASE o.Op \in {OpAdd, OpReplace} -> ~from /\ value /\ path
       [] o.Op = OpRemove -> ~from /\ ~value /\ path
       [] o.Op \in {OpMove, OpCopy} -> from /\ ~value /\ path
       [] o.Op = OpTest -> ~from /\ path
       [] OTHER -> FALSE

\* C25: an operation that violates the per-operation field table is
\* rejected as an invalid operation before it has any effect: the call
\* fails with that error and the document is as before.
C25_Validated ==
  ( /\ st \in {"done", "failed", "panicked"}
    /\ Len(p) = 1
    /\ base # NoCon
    /\ ~TableValid(p[1]) ) =>
    /\ st = "failed"
    /\ err = ErrInvalidOperation
    /\ MarshalCBOR(n) = docOf(base)

\* the key is a decimal integer: an optional "-" and at least one digit
IsDecimal(k) ==
  \E ds \in {IF k # <<>> /\ k[1] = "-" THEN Tail(k) ELSE k} :
    ds # <<>> /\ \A j \in 1..Len(ds) : ds[j] \in {"0", "1", "2", "3", "4", "5", "6", "7", "8", "9"}

Escaped == cin # NoCall /\ cin.op = "Escaped"

DigitVal(c) ==
  CASE c = "0" -> 0 [] c = "1" -> 1 [] c = "2" -> 2 [] c = "3" -> 3 [] c = "4" -> 4
    [] c = "5" -> 5 [] c = "6" -> 6 [] c = "7" -> 7 [] c = "8" -> 8 [] c = "9" -> 9

\* the digits of a decimal key from its first digit that is not 0 (the last
\* digit when all are 0)
RECURSIVE Significant(_)
Significant(ds) ==
  IF Len(ds) > 1 /\ Head(ds) = "0" THEN Significant(Tail(ds)) ELSE ds

\* of two digit strings of one length, a does not come after b
RECURSIVE NotAfter(_, _)
NotAfter(a, b) ==
  \/ a = <<>>
  \/ DigitVal(Head(a)) < DigitVal(Head(b))
  \/ Head(a) = Head(b) /\ NotAfter(Tail(a), Tail(b))

\* the decimal key k denotes an integer of -2^63 .. 2^63 - 1, the range of
\* int
IntHolds(k) ==
  \E neg \in {k[1] = "-"} :
  \E ds \in {Significant(IF neg THEN Tail(k) ELSE k)} :
    \/ Len(ds) < Len(MaxIntDigits)
    \/ /\ Len(ds) = Len(MaxIntDigits)
       /\ NotAfter(ds, IF neg THEN MinIntDigits ELSE MaxIntDigits)

\* the integer the digits ds denote when they follow the digits of before
RECURSIVE Denoted(_, _)
Denoted(ds, before) ==
  IF ds = <<>> THEN before
  ELSE Denoted(Tail(ds), 10 * before + DigitVal(Head(ds)))

\* the integer the decimal key k denotes
DecimalValue(k) == IF k[1] = "-" THEN -Denoted(Tail(k), 0) ELSE Denoted(k, 0)

\* C26: for a text-string key k that is no decimal integer in the range of
\* int (the key "-", the empty key, keys with "/" or "~" and digit strings
\* beyond the range of int included), parsing the pointer "/" + escape(k)
\* gives a Path of exactly one key, the text-string key k; for a key that
\* is a decimal integer in the range of int it gives a Path of one key, the
\* integer key of that value.
C26_EscapeRoundTrip ==
  Escaped =>
    /\ cout.err = NoErr
    /\ Len(cout.path) = 1
    /\ cout.path[1] = IF IsDecimal(cin.k) /\ IntHolds(cin.k)
                      THEN KInt(DecimalValue(cin.k))
                      ELSE KTxt(TextOf(cin.k))

\* C26 as stated: every key, the keys made of digits and those with a
\* leading "-" included, comes back as the text-string key.
C26_EscapeRoundTrip_AsStated ==
  Escaped =>
    /\ cout.err = NoErr
    /\ cout.path = <<KTxt(TextOf(cin.k))>>

\* the key ~1/ was escaped to ~01~1 and has come back
C26_Witness ==
  /\ Escaped
  /\ cin.k = <<"~", "1", "/">>
  /\ cin.jsonpath = <<"/", "~", "0", "1", "~", "1">>
  /\ cout.path = <<KTxt("~1/")>>

\* the step of the loop of Node.Patch that executes the operation p[pc + 1]
OpStep == st = "running" /\ pc < Len(p)

\* C28: an add without EnsurePathExistsOnAdd, a remove, a replace, a copy
\* or a test that fails leaves the document structurally equal to what it
\* was immediately before the operation, the working document of the call
\* and the document the Node holds alike; a test, successful or not, never
\* changes them.
C28_OpAtomic ==
  [][ OpStep =>
        \A o \in {p[pc + 1]} :
          ( \/ o.Op = OpTest
            \/ /\ st' = "failed"
               /\ o.Op \in {OpRemove, OpReplace, OpCopy}
            \/ /\ st' = "failed"
               /\ o.Op = OpAdd /\ ~opts.EnsurePathExistsOnAdd ) =>
            /\ ItemEq(docOf(pd'), docOf(pd))
            /\ ItemEq(MarshalCBOR(n'), MarshalCBOR(n))
    ]_vars

\* a copy of /foo/0 to the index 4 of the two-element array has failed and
\* the document is the one the call began with
C28_Witness ==
  /\ Returned(OpCopy)
  /\ st = "failed"
  /\ p[1].From = <<KTxt("foo"), KInt(0)>>
  /\ p[1].Path = <<KTxt("foo"), KInt(4)>>
  /\ docOf(base) = DocFoo
  /\ MarshalCBOR(n) = DocFoo

\* a key that no array is made for: a negative index or "-" when negative
\* indices are not supported, and an index below -1
BadNext(nxt, sni) ==
  \/ nxt = minus /\ ~sni
  \/ nxt # minus /\ nxt.t = "int" /\ nxt.i < 0 /\ (~sni \/ nxt.i < -1)

\* item after an add with path creation that fails: the containers missing
\* on the way are created as far as the creation gets, and nothing else is
\* changed.  The creation stops at an existing child that is no container,
\* before a key that BadNext follows (an array that has to be filled up to
\* its index is filled all the same), at an array key that cannot be
\* inserted at, and at the final key.
RECURSIVE ItemEnsuredUntilFail(_, _, _)
ItemEnsuredUntilFail(item, path, sni) ==
  IF item.ty \notin {"map", "ary"} \/ Len(path) = 1 THEN item
  ELSE IF ItemHas(item, path[1], sni)
  THEN ItemReplaced(item, <<path[1]>>,
                    ItemEnsuredUntilFail(ItemSub(item, path[1]), Tail(path), sni))
  ELSE With(ItemEnsuredUntilFail(ItemFresh(path[2]), Tail(path), sni), LAMBDA sub :
       IF item.ty = "map"
       THEN IF BadNext(path[2], sni) THEN item
            ELSE IMap([k \in DOMAIN item.m \cup {path[1]} |->
                         IF k = path[1] THEN sub ELSE item.m[k]])
       ELSE IF path[1].t = "int" /\ path[1].i > Len(item.a)
       THEN IAry(item.a \o Nulls(path[1].i - Len(item.a))
                   \o (IF BadNext(path[2], sni) THEN <<>> ELSE <<sub>>))
       ELSE With(AddPos(path[1], Len(item.a), sni), LAMBDA j :
            IF j = 0 \/ BadNext(path[2], sni) THEN item
            ELSE IAry(SubSeq(item.a, 1, j - 1) \o <<sub>>
                        \o SubSeq(item.a, j, Len(item.a)))))

\* C29: a move whose source resolves and whose destination cannot be added
\* once the source is removed (the parent of the destination does not
\* resolve, or the final index is invalid for the array after the removal)
\* fails and leaves the document without the source value, inserted
\* nowhere; an add with EnsurePathExistsOnAdd that fails leaves in the
\* document the containers it created before it failed.  Stated for paths
\* that have the key "-" at most as their final key.
C29_PartialEffects ==
  /\ ( /\ Returned(OpMove)
       /\ Len(p[1].From) > 0
       /\ NoMinus(p[1].From)
       /\ NoMinus(Front(p[1].Path))
       /\ ItemResolves(docOf(base), p[1].From, opts.SupportNegativeIndices) ) =>
       \A d \in {ItemRemoved(docOf(base), p[1].From)} :
         ~ItemAddable(d, p[1].Path, opts.SupportNegativeIndices) =>
           st = "failed" /\ ItemEq(MarshalCBOR(n), d)
  /\ ( /\ Returned(OpAdd)
       /\ opts.EnsurePathExistsOnAdd
       /\ st = "failed"
       /\ NoMinus(Front(p[1].Path)) ) =>
       ItemEq(MarshalCBOR(n),
              ItemEnsuredUntilFail(docOf(base), p[1].Path, opts.SupportNegativeIndices))

\* move /foo/1 to /foo/4 of { "foo": [ "all", "grass", "cows", "eat" ] }
\* has failed and left [ "all", "cows", "eat" ]
C29_Witness ==
  /\ Returned(OpMove)
  /\ st = "failed"
  /\ docOf(base) = DocCows
  /\ p[1].From = <<KTxt("foo"), KInt(1)>>
  /\ p[1].Path = <<KTxt("foo"), KInt(4)>>
  /\ MarshalCBOR(n) = Foo(<<ITxt("all"), ITxt("cows"), ITxt("eat")>>)

\* the places of a heap cell that hold a pointer, and the number of those
\* that hold the pointer r
Slots(cell) ==
  CASE cell.which = eDoc -> {k \in DOMAIN cell.doc : cell.doc[k] # Nil}
    [] cell.which = eAry -> {j \in 1..Len(cell.ary) : cell.ary[j] # Nil}
    [] OTHER -> {}

PointedAt(cell) ==
  CASE cell.which = eDoc -> {cell.doc[k].at : k \in Slots(cell)}
    [] cell.which = eAry -> {cell.ary[j].at : j \in Slots(cell)}
    [] OTHER -> {}

Pointers(cell, r) ==
  CASE cell.which = eDoc -> Cardinality({k \in Slots(cell) : cell.doc[k] = r})
    [] cell.which = eAry -> Cardinality({j \in Slots(cell) : cell.ary[j] = r})
    [] OTHER -> 0

\* the cells reachable from the cells S
RECURSIVE Reach(_, _)
Reach(h, S) ==
  With(S \cup UNION {PointedAt(h[i]) : i \in S}, LAMBDA T :
    IF T = S THEN S ELSE Reach(h, T))

\* Under the pointer r the heap is a tree of Nodes with buffers of their
\* own: no pointer leads back to r, every other Node below r is pointed at
\* from exactly one place, and the raw of every Node lies in the buffer
\* made for that Node.
TreeFrom(h, r) ==
  \A R \in {Reach(h, {r.at})} :
    \A i \in R :
      /\ SumOver(R, [j \in R |-> Pointers(h[j], Ref(i))]) = IF i = r.at THEN 0 ELSE 1
      /\ h[i].buf = OwnBuf(i)

\* C30: at every point of every sequence of Patch calls, what the Node
\* holds and what the running call works on are finite trees without
\* sharing: no Node is reachable by two paths, no container contains
\* itself, and no Node has its raw bytes in the buffer of an operation's
\* value, of the caller's input or of another Node.
C30_NoSharing ==
  /\ TreeFrom(heap, Root)
  /\ hroot # Nil => TreeFrom(heap, hroot)

\* two operations completed, the first a move or a copy of a container
C30_Witness ==
  /\ st = "done"
  /\ hist.allok
  /\ hist.used = 2
  /\ hist.log[1].Op \in {OpMove, OpCopy}
  /\ ItemAt(hist.orig.raw, hist.log[1].From).ty \in {"map", "ary"}
  /\ Cardinality(Reach(heap, {1})) > 3

====
